---- MODULE Spec2Model ----
(***************************************************************************)
(* Statistical-analysis tool of the agent package: the CSV reader, the    *)
(* descriptive statistics method and the t-test method, as a state        *)
(* machine.  A data file is fixed at the start; every step is one call of *)
(* executeStatisticalAnalysis on it.                                      *)
(*                                                                         *)
(* Numbers.  JavaScript numbers are modelled as exact rationals           *)
(* [n |-> numerator, d |-> denominator > 0] in lowest terms.  Math.sqrt   *)
(* is modelled exactly too: a value s * sqrt(q) is the record             *)
(* [sgn |-> s, sq |-> q] with s in {-1, 0, 1} and q a rational >= 0.      *)
(* The jStat library is not part of the repository: what it returns is a  *)
(* value chosen among those a Student t distribution function can return  *)
(* for the argument; jstat holds the values it returned in the call.      *)
(***************************************************************************)
EXTENDS Integers, Sequences, FiniteSets, TLC

VARIABLES file, call, result, jstat

vars == <<file, call, result, jstat>>

(***************************************************************************)
(* Bounds of the model.                                                    *)
(***************************************************************************)
\* Largest number of data rows of the file.
MaxRows == 5

\* Largest number of data rows of the files of SpecRead.
MaxReadRows == 3

\* Largest number of values of a column of SpecColumn.
MaxValues == 4

\* Largest number of rows without a value in a group of the files of SpecSample.
MaxGaps == 3

\* Largest number of values of a sample of SpecWelch.
MaxSample == 3

(***************************************************************************)
(* Exact rational arithmetic.                                              *)
(***************************************************************************)
Abs(x) == IF x < 0 THEN -x ELSE x

Sign(x) == IF x < 0 THEN -1 ELSE IF x = 0 THEN 0 ELSE 1

RECURSIVE Gcd(_, _)
Gcd(a, b) == IF b = 0 THEN a ELSE Gcd(b, a % b)

\* The rational n/d in lowest terms with a positive denominator.  A division by
\* zero gives Infinity, -Infinity or NaN: the sign of n over 0.
Rat(n, d) ==
    IF d = 0 THEN [n |-> Sign(n), d |-> 0]
    ELSE LET g == Gcd(Abs(n), Abs(d))
             s == IF d < 0 THEN -1 ELSE 1
         IN  [n |-> (s * n) \div g, d |-> (s * d) \div g]

RInt(k) == [n |-> k, d |-> 1]

RZero == RInt(0)

\* x + y; the sum of two infinite numbers is theirs when they are equal, and
\* NaN when they are not.
RAdd(x, y) ==
    IF x.d = 0 /\ y.d = 0 THEN (IF x.n = y.n THEN x ELSE [n |-> 0, d |-> 0])
    ELSE Rat(x.n * y.d + y.n * x.d, x.d * y.d)

\* x - y = x + (-y)
RSub(x, y) ==
    IF x.d = 0 /\ y.d = 0 THEN (IF x.n = -y.n THEN x ELSE [n |-> 0, d |-> 0])
    ELSE Rat(x.n * y.d - y.n * x.d, x.d * y.d)

RMul(x, y) == Rat(x.n * y.n, x.d * y.d)

RDiv(x, y) == Rat(x.n * y.d, x.d * y.n)

RSq(x) == [n |-> x.n * x.n, d |-> x.d * x.d]

RLt(x, y) == x.n * y.d < y.n * x.d

RLe(x, y) == x.n * y.d <= y.n * x.d

\* x <= y for two numbers that may be Infinity or -Infinity; false when one
\* is NaN.  RLt and RLe are for two numbers of which one at most is infinite.
NumLe(x, y) ==
    /\ x.d # 0 \/ x.n # 0
    /\ y.d # 0 \/ y.n # 0
    /\ IF x.d = 0 /\ y.d = 0 THEN x.n <= y.n ELSE RLe(x, y)

\* x === 0, which NaN is not
RIsZero(x) == x.n = 0 /\ x.d # 0

RSign(x) == Sign(x.n)

RMin(x, y) == IF RLt(y, x) THEN y ELSE x

\* Math.sqrt(q) for a rational q >= 0, kept exact: sgn is the sign of the root,
\* 0 also for the root of NaN, which is NaN.
Sqrt(q) == [sgn |-> IF q.n = 0 THEN 0 ELSE 1, sq |-> q]

\* x / s for a rational x and a non-zero square root s = sqrt(q); NaN when
\* x * x / q is.
DivBySqrt(x, s) ==
    LET q == RDiv(RSq(x), s.sq)
    IN  [sgn |-> IF q.n = 0 THEN 0 ELSE RSign(x), sq |-> q]

SurdZero == [sgn |-> 0, sq |-> RZero]

(***************************************************************************)
(* The data file and its reader (readCSV).                                 *)
(***************************************************************************)
\* The header row of the file.
Headers == <<"group", "value">>

\* Object.keys(rawRecords[0]): the columns of the parsed table.
HeaderSet == {Headers[i] : i \in DOMAIN Headers}

\* The decimal text of the numbers that occur in the file: NumStr[i] is String(i).
NumStr == <<"1", "2", "3">>

Row(g, v) == [group |-> g, value |-> v]

\* The data rows of the files of Spec, as the raw text of the columns "group" and
\* "value": two groups with a number each, a group whose value is no number, a
\* row without group and a row without value.
RawRows == {Row("A", "1"), Row("B", "3"), Row("C", "x"), Row("", "1"), Row("A", "NA")}

\* The data rows of the files of SpecStat: two groups with two numbers each.
NumericRows == {Row("A", "1"), Row("A", "2"), Row("B", "1"), Row("B", "3")}

\* The data rows of the files of SpecRead, which cover the vocabulary of the
\* missing values, texts in another case, texts with white space, number texts,
\* texts that start with a number, and a record of a line that ends before its
\* second column (relax_column_count).
ReadRows ==
    {Row("A", "1"), Row("B", "x"), Row("", "NA"), Row("1", "Infinity"),
     Row("3", "-Infinity"),
     Row("2", " 1"), Row("NULL", "NA "), Row("na", "1x"), Row("-", "."),
     Row("N/A", "null"), Row("NaN", "nan"), Row("n/a", " x "), [group |-> "B"]}

\* The files with at most MaxRows data rows.
FilesOf(rows) == UNION {[1..n -> rows] : n \in 0..MaxRows}

\* The files of SpecRead.
ReadFiles == UNION {[1..n -> ReadRows] : n \in 0..MaxReadRows}

MISSING_VALUES == {"", "NA", "NaN", "nan", "null", "NULL", "N/A", "n/a", ".", "-"}

NullCell == [t |-> "null", n |-> 0, s |-> ""]

NumberCell(i) == [t |-> "number", n |-> i, s |-> ""]

\* The cell of the number Infinity.
InfinityCell == [t |-> "number", n |-> 0, s |-> "Infinity"]

\* The cell of the number -Infinity.
NegInfinityCell == [t |-> "number", n |-> 0, s |-> "-Infinity"]

StringCell(str) == [t |-> "string", n |-> 0, s |-> str]

\* Texts with surrounding white space, and the same texts without it.
Padded == <<" 1", "NA ", " x ">>

Unpadded == <<"1", "NA", "x">>

\* value.trim(): a padded text loses its white space.  The texts of the rows of a
\* CSV file carry none, the parser has trimmed them (trim: true).
Trim(value) ==
    IF \E k \in DOMAIN Padded : Padded[k] = value
    THEN Unpadded[CHOOSE k \in DOMAIN Padded : Padded[k] = value]
    ELSE value

\* Number(text) is a number (not NaN) for the decimal texts, for "Infinity",
\* for "-Infinity" and for "".
IsNumberText(text) ==
    \/ text \in {"", "Infinity", "-Infinity"}
    \/ \E i \in DOMAIN NumStr : NumStr[i] = text

\* Number(text) for a decimal text or "".
NumberOf(text) ==
    IF text = "" THEN 0 ELSE CHOOSE i \in DOMAIN NumStr : NumStr[i] = text

parseValue(value) ==
    LET trimmed == Trim(value)
    IN  IF trimmed \in MISSING_VALUES THEN NullCell
        ELSE IF IsNumberText(trimmed) /\ trimmed # ""
        THEN (IF trimmed = "Infinity" THEN InfinityCell
              ELSE IF trimmed = "-Infinity" THEN NegInfinityCell
              ELSE NumberCell(NumberOf(trimmed)))
        ELSE StringCell(trimmed)

\* String(v) of a cell value.
String(v) ==
    IF v.t = "null" THEN "null"
    ELSE IF v.t = "number"
    THEN (IF v \in {InfinityCell, NegInfinityCell} THEN v.s ELSE NumStr[v.n])
    ELSE v.s

\* The number of a number cell.
ValueOf(v) ==
    IF v = InfinityCell THEN Rat(1, 0)
    ELSE IF v = NegInfinityCell THEN Rat(-1, 0)
    ELSE RInt(v.n)

\* The elements of seq that satisfy Test, in order (Array.prototype.filter).
RECURSIVE SelectIdx(_, _, _)
SelectIdx(seq, keep, i) ==
    IF i > Len(seq) THEN <<>>
    ELSE (IF keep[i] THEN <<seq[i]>> ELSE <<>>) \o SelectIdx(seq, keep, i + 1)

Filter(seq, keep) == SelectIdx(seq, keep, 1)

\* isNumericColumn with a column of exactly half numbers taken as numeric: the
\* fault C15 excludes.
isNumericColumnFromHalf(values) ==
    LET nonNull == {i \in DOMAIN values : values[i].t # "null"}
        numericCount == Cardinality({i \in nonNull : values[i].t = "number"})
    IN  IF Cardinality(nonNull) = 0 THEN FALSE
        ELSE 2 * numericCount >= Cardinality(nonNull)

isNumericColumn(values) ==
    LET nonNull == {i \in DOMAIN values : values[i].t # "null"}
        numericCount == Cardinality({i \in nonNull : values[i].t = "number"})
    IN  IF Cardinality(nonNull) = 0 THEN FALSE
        ELSE 2 * numericCount > Cardinality(nonNull)

\* Object.keys(record) of a parsed record: its columns, in the order of the
\* header row.
RecordKeys(record) == Filter(Headers, [j \in DOMAIN Headers |-> Headers[j] \in DOMAIN record])

\* record[header] ?? ''
Field(record, header) == IF header \in DOMAIN record THEN record[header] ELSE ""

\* missingRate > 0.3, for missingRate = missingCount / totalRows
highMissingRate(missingCount, totalRows) == 10 * missingCount > 3 * totalRows

\* readCSV on an existing file of supported size: the parsed table, or the error
\* of a file without data rows.
readCSV(rawRecords) ==
    IF Len(rawRecords) = 0
    THEN [ok |-> FALSE, error |-> "EmptyData"]
    ELSE
      LET headers == RecordKeys(rawRecords[1])
          headerSet == {headers[j] : j \in DOMAIN headers}
          rows == [i \in DOMAIN rawRecords |->
                      [h \in headerSet |-> parseValue(Field(rawRecords[i], h))]]
          column(h) == [i \in DOMAIN rows |-> rows[i][h]]
          missingValueCounts ==
              [h \in headerSet |->
                  Cardinality({i \in DOMAIN rows : rows[i][h].t = "null"})]
          isNum == [h \in headerSet |-> isNumericColumn(column(h))]
          highMissing == [j \in DOMAIN headers |->
                             highMissingRate(missingValueCounts[headers[j]], Len(rows))]
      IN  [ok |-> TRUE,
           headers |-> headers,
           rows |-> rows,
           totalRows |-> Len(rows),
           numericColumns |-> Filter(headers, [j \in DOMAIN headers |-> isNum[headers[j]]]),
           categoricalColumns |-> Filter(headers, [j \in DOMAIN headers |-> ~isNum[headers[j]]]),
           missingValueCounts |-> missingValueCounts,
           warnings |-> Filter([j \in DOMAIN headers |->
                                   [kind |-> "HighMissingRate", column |-> headers[j]]],
                               highMissing)]

\* readDataFile with the missing values counted on the raw text, where only the
\* empty text is missing: the fault C16 excludes.
readDataFileCountingEmpty(f) ==
    LET counted(csv) ==
            IF ~csv.ok THEN csv
            ELSE [csv EXCEPT !.missingValueCounts =
                     [h \in DOMAIN @ |->
                         Cardinality({i \in DOMAIN f : Field(f[i], h) = ""})]]
    IN  counted(readCSV(f))

\* readDataFile with the first data row taken for the header row: the fault C17
\* excludes.
readDataFileFromSecondRow(f) ==
    IF Len(f) <= 1 THEN [ok |-> FALSE, error |-> "EmptyData"] ELSE readCSV(f)

readDataFile(f) == readCSV(f)

\* extractNumericValues that keeps the missing cells, as the number 0 that
\* Number(null) is: the fault C21 excludes.
extractNumericValuesWithNull(rows, column) ==
    LET cells == [i \in DOMAIN rows |-> rows[i][column]]
        nums == Filter(cells, [i \in DOMAIN cells |-> cells[i].t # "string"])
    IN  [i \in DOMAIN nums |-> ValueOf(nums[i])]

\* extractNumericValues(rows, column): the numbers of the column, in row order.
extractNumericValues(rows, column) ==
    LET cells == [i \in DOMAIN rows |-> rows[i][column]]
        nums == Filter(cells, [i \in DOMAIN cells |-> cells[i].t = "number"])
    IN  [i \in DOMAIN nums |-> ValueOf(nums[i])]

\* validateColumns that reports the first unmatched name only: the fault C19
\* excludes.
MissingColumnsFirstOnly(headers, requestedColumns) ==
    LET missing == Filter(requestedColumns,
                          [i \in DOMAIN requestedColumns |->
                              ~\E j \in DOMAIN headers : headers[j] = requestedColumns[i]])
    IN  IF Len(missing) > 0 THEN <<missing[1]>> ELSE <<>>

\* validateColumns: the requested columns that are no header, in request order;
\* the call throws when there is one.
MissingColumns(headers, requestedColumns) ==
    Filter(requestedColumns,
           [i \in DOMAIN requestedColumns |->
               ~\E j \in DOMAIN headers : headers[j] = requestedColumns[i]])

(***************************************************************************)
(* jStat.  lib is what the library returns in one call of the tool:        *)
(*   lib.upper  studentt.cdf(t, df) for the t > 0 of the call (the         *)
(*              distribution is symmetric: cdf(-t) = 1 - cdf(t), and       *)
(*              cdf(0) = 1/2),                                             *)
(*   lib.tcrit  studentt.inv(0.975, df),                                   *)
(*   lib.fcdf   centralF.cdf(f, df1, df2) for the f > 0 of the call        *)
(*              (cdf(0) = 0).                                              *)
(***************************************************************************)
CdfUpperValues == {Rat(3, 4), RInt(1)}

TCritValues == {RInt(2), RInt(13)}

FCdfValues == {Rat(1, 2), Rat(99, 100)}

\* The outcomes of the library a call is run with: every pair of a cdf value and
\* an F value, the critical value changing with the F value, so that each of the
\* three results takes both its values.
LibOutcomes ==
    {lib \in [upper : CdfUpperValues, tcrit : TCritValues, fcdf : FCdfValues] :
        (lib.tcrit = RInt(2)) <=> (lib.fcdf = Rat(1, 2))}

AnyLib == CHOOSE lib \in LibOutcomes : TRUE

studenttCdf(tStatistic, lib) ==
    IF tStatistic.sgn = 0 THEN Rat(1, 2)
    ELSE IF tStatistic.sgn > 0 THEN lib.upper
    ELSE RSub(RInt(1), lib.upper)

centralFCdf(fStatistic, lib) == IF RIsZero(fStatistic) THEN RZero ELSE lib.fcdf

\* tDistributionPValue with the two-sided value taken from the upper tail only:
\* the fault C10 excludes.
tDistributionPValueUpperTail(tStatistic, lib, alternative) ==
    LET cdf == studenttCdf(tStatistic, lib)
    IN  IF alternative = "less" THEN cdf
        ELSE IF alternative = "greater" THEN RSub(RInt(1), cdf)
        ELSE RMul(RInt(2), RSub(RInt(1), cdf))

\* tDistributionPValue(tStatistic, df, alternative)
tDistributionPValue(tStatistic, lib, alternative) ==
    LET cdf == studenttCdf(tStatistic, lib)
    IN  IF alternative = "less" THEN cdf
        ELSE IF alternative = "greater" THEN RSub(RInt(1), cdf)
        ELSE RMul(RInt(2), RMin(cdf, RSub(RInt(1), cdf)))

\* tCriticalValue with the quantile taken at alpha/2, which is the negated
\* quantile at 1 - alpha/2: the fault C11 excludes.
tCriticalValueLowerTail(lib) == RSub(RZero, lib.tcrit)

\* tCriticalValue(0.05, df)
tCriticalValue(lib) == lib.tcrit

\* fDistributionPValue(fStatistic, df1, df2)
fDistributionPValue(fStatistic, lib) == RSub(RInt(1), centralFCdf(fStatistic, lib))

(***************************************************************************)
(* The t-test method (methods/t-test.ts).                                  *)
(***************************************************************************)
\* The sum of values[lo..hi], taken by halves: the order of the additions
\* does not change an exact sum, and a long array needs few nested calls.
RECURSIVE SumFrom(_, _, _)
SumFrom(values, lo, hi) ==
    IF lo > hi THEN RZero
    ELSE IF lo = hi THEN values[lo]
    ELSE LET mid == (lo + hi) \div 2
         IN  RAdd(SumFrom(values, lo, mid), SumFrom(values, mid + 1, hi))

\* values.reduce((sum, v) => sum + v, 0)
Sum(values) == SumFrom(values, 1, Len(values))

\* mean of a non-empty array
mean(values) == RDiv(Sum(values), RInt(Len(values)))

\* variance with the sum of squares divided by n (ddof = 0): the fault C8 excludes.
variancePopulation(values) ==
    IF Len(values) <= 1 THEN RZero
    ELSE LET m == mean(values)
         IN  RDiv(Sum([i \in DOMAIN values |-> RSq(RSub(values[i], m))]),
                  RInt(Len(values)))

variance(values) ==
    IF Len(values) <= 1 THEN RZero
    ELSE LET m == mean(values)
         IN  RDiv(Sum([i \in DOMAIN values |-> RSq(RSub(values[i], m))]),
                  RInt(Len(values) - 1))

std(values) == Sqrt(variance(values))

\* The distinct elements of seq in the order of their first occurrence
\* ([...new Set(seq)]).
UniqueInOrder(seq) ==
    Filter(seq, [i \in DOMAIN seq |-> ~\E j \in 1..(i - 1) : seq[j] = seq[i]])

\* The texts of the cells of the file in the order of Array.prototype.sort.
Collation == NumStr \o <<"A", "B", "C", "null", "x">>

\* uniqueGroups with the names sorted: the fault C3 excludes.
uniqueGroupsSorted(rows, groupByColumn) ==
    LET cells == [i \in DOMAIN rows |-> rows[i][groupByColumn]]
        nonNull == Filter(cells, [i \in DOMAIN cells |-> cells[i].t # "null"])
        names == {String(nonNull[i]) : i \in DOMAIN nonNull}
    IN  Filter(Collation, [k \in DOMAIN Collation |-> Collation[k] \in names])

\* uniqueGroups without the filter of the missing cells: the fault C4 excludes.
uniqueGroupsWithMissing(rows, groupByColumn) ==
    LET cells == [i \in DOMAIN rows |-> rows[i][groupByColumn]]
    IN  UniqueInOrder([i \in DOMAIN cells |-> String(cells[i])])

\* Lines 175-182: the group names of the column, in first-encountered order.
uniqueGroups(rows, groupByColumn) ==
    LET cells == [i \in DOMAIN rows |-> rows[i][groupByColumn]]
        nonNull == Filter(cells, [i \in DOMAIN cells |-> cells[i].t # "null"])
    IN  UniqueInOrder([i \in DOMAIN nonNull |-> String(nonNull[i])])

\* Lines 193-194: csv.rows.filter((row) => String(row[groupByColumn]) === name)
groupRows(rows, groupByColumn, name) ==
    Filter(rows, [i \in DOMAIN rows |-> String(rows[i][groupByColumn]) = name])

\* Array.prototype.slice(from, to) with 0-based from (inclusive), to (exclusive).
Slice(seq, from, to) == [i \in 1..(to - from) |-> seq[from + i]]

\* cohensD with the two variances pooled without their weights n - 1: the fault
\* C12 excludes.
cohensDUnweighted(group1, group2, paired) ==
    LET ratio(difference, deviation) ==
            IF deviation = SurdZero THEN SurdZero ELSE DivBySqrt(difference, deviation)
        diffs == [i \in DOMAIN group1 |-> RSub(group1[i], group2[i])]
    IN  IF paired
        THEN ratio(mean(diffs), std(diffs))
        ELSE ratio(RSub(mean(group1), mean(group2)),
                   Sqrt(RDiv(RAdd(variance(group1), variance(group2)), RInt(2))))

\* cohensD (lines 98-118)
cohensD(group1, group2, paired) ==
    LET ratio(difference, deviation) ==
            IF deviation = SurdZero THEN SurdZero ELSE DivBySqrt(difference, deviation)
        pooledVar(var1, var2, n1, n2) ==
            RDiv(RAdd(RMul(RInt(n1 - 1), var1), RMul(RInt(n2 - 1), var2)),
                 RInt(n1 + n2 - 2))
        diffs == [i \in DOMAIN group1 |-> RSub(group1[i], group2[i])]
    IN  IF paired
        THEN ratio(mean(diffs), std(diffs))
        ELSE ratio(RSub(mean(group1), mean(group2)),
                   Sqrt(pooledVar(variance(group1), variance(group2),
                                  Len(group1), Len(group2))))

\* The diagnostics of a result with the warnings of the reader after those of
\* the method: the fault C27 excludes.
collectDiagnosticsAfter(warnings, pushed) == pushed \o warnings

\* const diagnostics = [...csv.warnings], and the diagnostics the method pushes
\* after them.
collectDiagnostics(warnings, pushed) == warnings \o pushed

\* throw new Error(message): the value thrown is an Error, without a class or a
\* code of its own; error stands for the text of its message and info for the
\* values the message gives.
Throw(kind, info) == [kind |-> "error", name |-> "Error", error |-> kind, info |-> info]

\* splitGroups with the rows split in two halves before the numbers of the
\* variable are extracted from each: the fault C7 excludes.
splitGroupsByRows(csv, variable, groupByColumn) ==
    IF groupByColumn # ""
    THEN LET names == uniqueGroups(csv.rows, groupByColumn)
         IN  IF Len(names) # 2
             THEN Throw("GroupCount", [found |-> Len(names), groups |-> names])
             ELSE [kind |-> "groups",
                   group1Name |-> names[1],
                   group2Name |-> names[2],
                   group1Values |->
                       extractNumericValues(groupRows(csv.rows, groupByColumn, names[1]), variable),
                   group2Values |->
                       extractNumericValues(groupRows(csv.rows, groupByColumn, names[2]), variable)]
    ELSE LET halfLen == Len(csv.rows) \div 2
         IN  IF Len(csv.rows) % 2 # 0
             THEN Throw("OddSampleSize", [got |-> Len(csv.rows)])
             ELSE [kind |-> "groups",
                   group1Name |-> "First half",
                   group2Name |-> "Second half",
                   group1Values |->
                       extractNumericValues(Slice(csv.rows, 0, halfLen), variable),
                   group2Values |->
                       extractNumericValues(Slice(csv.rows, halfLen, Len(csv.rows)), variable)]

\* Lines 167-212: the two samples and their names, or the error thrown.
splitGroups(csv, variable, groupByColumn) ==
    IF groupByColumn # ""
    THEN LET names == uniqueGroups(csv.rows, groupByColumn)
         IN  IF Len(names) # 2
             THEN Throw("GroupCount", [found |-> Len(names), groups |-> names])
             ELSE [kind |-> "groups",
                   group1Name |-> names[1],
                   group2Name |-> names[2],
                   group1Values |->
                       extractNumericValues(groupRows(csv.rows, groupByColumn, names[1]), variable),
                   group2Values |->
                       extractNumericValues(groupRows(csv.rows, groupByColumn, names[2]), variable)]
    ELSE LET allValues == extractNumericValues(csv.rows, variable)
             halfLen == Len(allValues) \div 2
         IN  IF Len(allValues) % 2 # 0
             THEN Throw("OddSampleSize", [got |-> Len(allValues)])
             ELSE [kind |-> "groups",
                   group1Name |-> "First half",
                   group2Name |-> "Second half",
                   group1Values |-> Slice(allValues, 0, halfLen),
                   group2Values |-> Slice(allValues, halfLen, Len(allValues))]

\* sampleSizeError with a smallest sample of one value: the fault C6 excludes.
sampleSizeErrorBelowOne(g, paired) ==
    LET n1 == Len(g.group1Values)
        n2 == Len(g.group2Values)
        sizes == [group1Name |-> g.group1Name, n1 |-> n1,
                  group2Name |-> g.group2Name, n2 |-> n2]
    IN  IF n1 < 1 \/ n2 < 1 THEN Throw("InsufficientSample", sizes)
        ELSE IF paired /\ n1 # n2 THEN Throw("UnequalPairedSize", sizes)
        ELSE [kind |-> "none"]

\* Lines 214-225: the sample size checks; "none" when both pass.
sampleSizeError(g, paired) ==
    LET n1 == Len(g.group1Values)
        n2 == Len(g.group2Values)
        sizes == [group1Name |-> g.group1Name, n1 |-> n1,
                  group2Name |-> g.group2Name, n2 |-> n2]
    IN  IF n1 < 2 \/ n2 < 2 THEN Throw("InsufficientSample", sizes)
        ELSE IF paired /\ n1 # n2 THEN Throw("UnequalPairedSize", sizes)
        ELSE [kind |-> "none"]

\* testStatistic with the deviation of the paired differences divided by n, not
\* by its square root: the fault C9 excludes.
testStatisticDividedByN(group1Values, group2Values, paired) ==
    LET n1 == Len(group1Values)
        n2 == Len(group2Values)
        diffs == [i \in DOMAIN group1Values |-> RSub(group1Values[i], group2Values[i])]
        statistic(difference, se, df) ==
            [se |-> se,
             tStatistic |-> IF se = SurdZero THEN SurdZero ELSE DivBySqrt(difference, se),
             df |-> df]
        pairedTest(diffMean, diffStd) ==
            statistic(diffMean, Sqrt(RDiv(diffStd.sq, RInt(n1 * n1))), RInt(n1 - 1))
        welch(difference, a, b) ==
            LET num == RSq(RAdd(a, b))
                denom == RAdd(RDiv(RSq(a), RInt(n1 - 1)), RDiv(RSq(b), RInt(n2 - 1)))
            IN  statistic(difference, Sqrt(RAdd(a, b)),
                          IF RIsZero(denom) THEN RInt(n1 + n2 - 2) ELSE RDiv(num, denom))
    IN  IF paired
        THEN pairedTest(mean(diffs), std(diffs))
        ELSE welch(RSub(mean(group1Values), mean(group2Values)),
                   RDiv(variance(group1Values), RInt(n1)),
                   RDiv(variance(group2Values), RInt(n2)))

\* The differences with value i of group1 paired with value n + 1 - i of group2:
\* the fault C30 excludes.
pairedDifferencesReversed(group1Values, group2Values) ==
    [i \in DOMAIN group1Values |->
        RSub(group1Values[i], group2Values[Len(group2Values) + 1 - i])]

\* group1Values.map((v, i) => v - group2Values[i])
pairedDifferences(group1Values, group2Values) ==
    [i \in DOMAIN group1Values |-> RSub(group1Values[i], group2Values[i])]

\* Lines 237-258: the t statistic, its degrees of freedom and the standard error
\* of the mean difference.
testStatistic(group1Values, group2Values, paired) ==
    LET n1 == Len(group1Values)
        n2 == Len(group2Values)
        diffs == pairedDifferences(group1Values, group2Values)
        statistic(difference, se, df) ==
            [se |-> se,
             tStatistic |-> IF se = SurdZero THEN SurdZero ELSE DivBySqrt(difference, se),
             df |-> df]
        pairedTest(diffMean, diffStd) ==
            statistic(diffMean, Sqrt(RDiv(diffStd.sq, RInt(n1))), RInt(n1 - 1))
        welch(difference, a, b) ==
            LET num == RSq(RAdd(a, b))
                denom == RAdd(RDiv(RSq(a), RInt(n1 - 1)), RDiv(RSq(b), RInt(n2 - 1)))
            IN  statistic(difference, Sqrt(RAdd(a, b)),
                          IF RIsZero(denom) THEN RInt(n1 + n2 - 2) ELSE RDiv(num, denom))
    IN  IF paired
        THEN pairedTest(mean(diffs), std(diffs))
        ELSE welch(RSub(mean(group1Values), mean(group2Values)),
                   RDiv(variance(group1Values), RInt(n1)),
                   RDiv(variance(group2Values), RInt(n2)))

\* values sorted ascending ([...values].sort((a, b) => a - b))
RECURSIVE SortAsc(_)
SortAsc(values) ==
    IF Len(values) <= 1 THEN values
    ELSE LET m == CHOOSE i \in DOMAIN values :
                      \A j \in DOMAIN values : NumLe(values[i], values[j])
             rest == SubSeq(values, 1, m - 1) \o SubSeq(values, m + 1, Len(values))
         IN  <<values[m]>> \o SortAsc(rest)

\* sortedMedian with the upper middle element taken for an even length, without
\* the average of the two middle elements: the fault C13 excludes.
sortedMedianUpper(sorted) == sorted[Len(sorted) \div 2 + 1]

sortedMedian(sorted) ==
    LET mid == Len(sorted) \div 2
    IN  IF Len(sorted) % 2 = 0
        THEN RDiv(RAdd(sorted[mid], sorted[mid + 1]), RInt(2))
        ELSE sorted[mid + 1]

RAbs(x) == [n |-> Abs(x.n), d |-> x.d]

\* leveneTest (lines 44-79)
leveneTest(group1, group2, lib) ==
    LET deviations(group, median) ==
            [i \in DOMAIN group |-> RAbs(RSub(group[i], median))]
        ssWithinOf(dev, m) == Sum([i \in DOMAIN dev |-> RSq(RSub(dev[i], m))])
        outcome(fStatistic) ==
            [fStatistic |-> fStatistic, pValue |-> fDistributionPValue(fStatistic, lib)]
        fTest(ssBetween, ssWithin, df1, df2) ==
            IF RIsZero(ssWithin)
            THEN [fStatistic |-> RZero, pValue |-> RInt(1)]
            ELSE outcome(RDiv(RDiv(ssBetween, RInt(df1)), RDiv(ssWithin, RInt(df2))))
        ssBetweenOf(n1, n2, mean1, mean2, grandMean) ==
            RAdd(RMul(RInt(n1), RSq(RSub(mean1, grandMean))),
                 RMul(RInt(n2), RSq(RSub(mean2, grandMean))))
        ofMeans(dev1, dev2, n1, n2, mean1, mean2) ==
            fTest(ssBetweenOf(n1, n2, mean1, mean2,
                              RDiv(RAdd(RMul(RInt(n1), mean1), RMul(RInt(n2), mean2)),
                                   RInt(n1 + n2))),
                  RAdd(ssWithinOf(dev1, mean1), ssWithinOf(dev2, mean2)),
                  1, n1 + n2 - 2)
        ofDeviations(dev1, dev2) ==
            ofMeans(dev1, dev2, Len(dev1), Len(dev2), mean(dev1), mean(dev2))
    IN  ofDeviations(deviations(group1, sortedMedian(SortAsc(group1))),
                     deviations(group2, sortedMedian(SortAsc(group2))))

\* dataInfo with every row of the table counted as used: the fault C28 excludes.
dataInfoOfAllRows(totalRows, totalUsed) ==
    [totalRows |-> totalRows, usedRows |-> totalRows, excludedRows |-> 0]

\* Lines 285-292 of runTTest: the data information for totalUsed = n1 + n2.
dataInfoOf(totalRows, totalUsed) ==
    [totalRows |-> totalRows, usedRows |-> totalUsed, excludedRows |-> totalRows - totalUsed]

\* The sample size below which a diagnostic is added (line 295).
SmallSample == 30

\* Lines 227-371 of runTTest: the result for two samples that passed the checks.
tTestResult(input, csv, g, lib) ==
    LET paired == input.paired
        alternative == IF input.alternative = "" THEN "two-sided" ELSE input.alternative
        n1 == Len(g.group1Values)
        n2 == Len(g.group2Values)
        leveneDiag(leveneResult) ==
            IF ~paired /\ RLt(leveneResult.pValue, Rat(5, 100))
            THEN <<[kind |-> "UnequalVariances"]>> ELSE <<>>
        smallDiag == IF n1 < SmallSample \/ n2 < SmallSample
                     THEN <<[kind |-> "SmallSample"]>> ELSE <<>>
        withLevene(details, leveneResult) ==
            IF paired THEN details
            ELSE [f \in DOMAIN details \cup {"leveneTest"} |->
                     IF f = "leveneTest" THEN leveneResult ELSE details[f]]
        report(mean1, mean2, meanDiff, stat, tCrit, leveneResult) ==
            [kind |-> "ok",
             method |-> "T-Test",
             dataInfo |-> dataInfoOf(csv.totalRows, n1 + n2),
             details |->
                 withLevene(
                     [testType |-> IF paired THEN "paired" ELSE "independent",
                      tStatistic |-> stat.tStatistic,
                      pValue |-> tDistributionPValue(stat.tStatistic, lib, alternative),
                      degreesOfFreedom |-> stat.df,
                      meanDifference |-> meanDiff,
                      confidenceInterval |->
                          [lower |-> [mid |-> meanDiff, k |-> RSub(RZero, tCrit), se |-> stat.se],
                           upper |-> [mid |-> meanDiff, k |-> tCrit, se |-> stat.se]],
                      cohensD |-> cohensD(g.group1Values, g.group2Values, paired),
                      group1 |-> [name |-> g.group1Name, n |-> n1, mean |-> mean1,
                                  std |-> std(g.group1Values)],
                      group2 |-> [name |-> g.group2Name, n |-> n2, mean |-> mean2,
                                  std |-> std(g.group2Values)],
                      alternative |-> alternative],
                     leveneResult),
             diagnostics |-> collectDiagnostics(csv.warnings,
                                                leveneDiag(leveneResult) \o smallDiag)]
        ofMeans(mean1, mean2) ==
            report(mean1, mean2, RSub(mean1, mean2),
                   testStatistic(g.group1Values, g.group2Values, paired),
                   tCriticalValue(lib),
                   leveneTest(g.group1Values, g.group2Values, lib))
    IN  ofMeans(mean(g.group1Values), mean(g.group2Values))

\* tTestChecks with the file read and the columns validated before groupByColumn
\* is required: the fault C5 excludes.
tTestChecksColumnsFirst(input, f) ==
    LET requiredCols == <<input.variable>> \o
            (IF input.groupByColumn # "" THEN <<input.groupByColumn>> ELSE <<>>)
        passed(csv, g, e) ==
            IF e.kind = "error" THEN e
            ELSE [kind |-> "passed", csv |-> csv, groups |-> g]
        checkGroups(csv, g) ==
            IF g.kind = "error" THEN g
            ELSE passed(csv, g, sampleSizeError(g, input.paired))
        checkColumns(csv, missing) ==
            IF Len(missing) > 0
            THEN Throw("UnknownColumn", [missing |-> missing, available |-> csv.headers])
            ELSE IF ~input.paired /\ input.groupByColumn = ""
            THEN Throw("MissingGroupColumn", <<>>)
            ELSE checkGroups(csv, splitGroups(csv, input.variable, input.groupByColumn))
        checkTable(csv) ==
            IF ~csv.ok THEN Throw(csv.error, <<>>)
            ELSE checkColumns(csv, MissingColumns(csv.headers, requiredCols))
    IN  IF input.variable = ""
        THEN Throw("MissingVariable", <<>>)
        ELSE checkTable(readDataFile(f))

\* Lines 148-225 of runTTest: the error thrown by the first check that fails, or
\* the table and the two samples that passed them all.
tTestChecks(input, f) ==
    LET requiredCols == <<input.variable>> \o
            (IF input.groupByColumn # "" THEN <<input.groupByColumn>> ELSE <<>>)
        passed(csv, g, e) ==
            IF e.kind = "error" THEN e
            ELSE [kind |-> "passed", csv |-> csv, groups |-> g]
        checkGroups(csv, g) ==
            IF g.kind = "error" THEN g
            ELSE passed(csv, g, sampleSizeError(g, input.paired))
        checkColumns(csv, missing) ==
            IF Len(missing) > 0
            THEN Throw("UnknownColumn", [missing |-> missing, available |-> csv.headers])
            ELSE checkGroups(csv, splitGroups(csv, input.variable, input.groupByColumn))
        checkTable(csv) ==
            IF ~csv.ok THEN Throw(csv.error, <<>>)
            ELSE checkColumns(csv, MissingColumns(csv.headers, requiredCols))
    IN  IF input.variable = ""
        THEN Throw("MissingVariable", <<>>)
        ELSE IF ~input.paired /\ input.groupByColumn = ""
        THEN Throw("MissingGroupColumn", <<>>)
        ELSE checkTable(readDataFile(f))

\* runTTest with a failed check downgraded to a diagnostic of a returned result
\* that holds no statistic: the fault C1 excludes.
runTTestDowngrading(input, f, lib) ==
    LET outcome(checked) ==
            IF checked.kind = "error"
            THEN [kind |-> "ok", method |-> "T-Test",
                  diagnostics |-> <<[kind |-> checked.error]>>]
            ELSE tTestResult(input, checked.csv, checked.groups, lib)
    IN  outcome(tTestChecks(input, f))

\* runTTest (lines 138-371): the outcome of one call on the file f.
runTTest(input, f, lib) ==
    LET outcome(checked) ==
            IF checked.kind = "error" THEN checked
            ELSE tTestResult(input, checked.csv, checked.groups, lib)
    IN  outcome(tTestChecks(input, f))

\* executeStatisticalAnalysis, action t_test (engine.ts lines 49-61)
executeTTest(input, f, lib) ==
    IF input.variable = "" THEN Throw("MissingVariable", <<>>)
    ELSE runTTest(input, f, lib)

(***************************************************************************)
(* The descriptive statistics method (methods/descriptive-stats.ts).       *)
(***************************************************************************)
\* NaN, as a number and as a square root.
NaN == [n |-> 0, d |-> 0]

SurdNaN == [sgn |-> 0, sq |-> NaN]

\* std(values, avg) of descriptive-stats.ts (lines 20-25)
descStd(values) ==
    IF Len(values) <= 1 THEN Sqrt(RZero)
    ELSE LET m == mean(values)
             sumSqDiff == Sum([i \in DOMAIN values |-> RSq(RSub(values[i], m))])
         IN  Sqrt(RDiv(sumSqDiff, RInt(Len(values) - 1)))

\* percentile without the interpolation, as the element at the floor of the
\* index: the fault C23 excludes.
percentileLowerRank(sorted, p) ==
    IF Len(sorted) = 0 THEN NaN
    ELSE IF Len(sorted) = 1 THEN sorted[1]
    ELSE LET index == Rat(p * (Len(sorted) - 1), 100)
         IN  sorted[index.n \div index.d + 1]

\* percentile(sorted, p) for p in 0..100; sorted[k + 1] is the element of index k.
percentile(sorted, p) ==
    IF Len(sorted) = 0 THEN NaN
    ELSE IF Len(sorted) = 1 THEN sorted[1]
    ELSE LET index == Rat(p * (Len(sorted) - 1), 100)
             lower == index.n \div index.d
             upper == IF index.n % index.d = 0 THEN lower ELSE lower + 1
             fraction == RSub(index, RInt(lower))
         IN  IF lower = upper THEN sorted[lower + 1]
             ELSE RAdd(RMul(sorted[lower + 1], RSub(RInt(1), fraction)),
                       RMul(sorted[upper + 1], fraction))

RCube(x) == RMul(x, RSq(x))

\* skewness(values, avg, sd): the sum of ((v - avg) / sd)^3 is the sum of
\* (v - avg)^3 / sd^2, divided by sd.
skewness(values, avg, sd) ==
    IF Len(values) < 3 \/ sd = SurdZero THEN SurdZero
    ELSE LET n == Len(values)
             cubes == Sum([i \in DOMAIN values |-> RCube(RSub(values[i], avg))])
             m3sd == RDiv(RDiv(cubes, sd.sq), RInt(n))
         IN  DivBySqrt(RDiv(RMul(m3sd, RInt(n * n)), RInt((n - 1) * (n - 2))), sd)

\* kurtosis(values, avg, sd)
kurtosis(values, avg, sd) ==
    IF Len(values) < 4 \/ sd = SurdZero THEN RZero
    ELSE LET n == Len(values)
             quartics == Sum([i \in DOMAIN values |-> RSq(RSq(RSub(values[i], avg)))])
             m4 == RDiv(RDiv(quartics, RSq(sd.sq)), RInt(n))
             rawKurtosis == RDiv(RMul(m4, RInt(n * (n + 1))),
                                 RInt((n - 1) * (n - 2) * (n - 3)))
             correction == Rat(3 * (n - 1) * (n - 1), (n - 2) * (n - 3))
         IN  RSub(rawKurtosis, correction)

computeColumnStats(column, values, totalRowCount) ==
    LET stats(sorted, avg, sd) ==
            [column |-> column, count |-> Len(values), mean |-> avg, std |-> sd,
             min |-> sorted[1],
             q1 |-> percentile(sorted, 25),
             median |-> percentile(sorted, 50),
             q3 |-> percentile(sorted, 75),
             max |-> sorted[Len(sorted)],
             missingCount |-> totalRowCount - Len(values),
             skewness |-> skewness(values, avg, sd),
             kurtosis |-> kurtosis(values, avg, sd)]
    IN  IF Len(values) = 0
        THEN [column |-> column, count |-> 0, mean |-> NaN, std |-> SurdNaN, min |-> NaN,
              q1 |-> NaN, median |-> NaN, q3 |-> NaN, max |-> NaN,
              missingCount |-> totalRowCount, skewness |-> SurdNaN, kurtosis |-> NaN]
        ELSE stats(SortAsc(values), mean(values), descStd(values))

\* The own keys of an object in the order of Object.entries: the keys that are
\* array indices (the decimal texts) in ascending numeric order, then the other
\* keys in the order they were first set.
objectKeys(inserted) ==
    LET isIndex == [k \in DOMAIN inserted |-> \E i \in DOMAIN NumStr : NumStr[i] = inserted[k]]
        indices == {NumberOf(inserted[k]) : k \in {j \in DOMAIN inserted : isIndex[j]}}
        indexKeys == Filter(NumStr, [i \in DOMAIN NumStr |-> i \in indices])
    IN  indexKeys \o Filter(inserted, [k \in DOMAIN inserted |-> ~isIndex[k]])

\* groupStats with the row count of the table as the basis of missingCount: the
\* fault C20 excludes.
groupStatsOverTable(csv, targetColumns, groupBy) ==
    LET statsOf(rows) ==
            [c \in DOMAIN targetColumns |->
                computeColumnStats(targetColumns[c],
                                   extractNumericValues(rows, targetColumns[c]),
                                   csv.totalRows)]
        entries(names) ==
            [k \in DOMAIN names |->
                [name |-> names[k],
                 stats |-> statsOf(groupRows(csv.rows, groupBy, names[k]))]]
    IN  entries(objectKeys(uniqueGroups(csv.rows, groupBy)))

\* Lines 165-175: the groups of the column, as the entries of the object groups,
\* which is keyed by the stringified distinct non-null values of the column.
groupStats(csv, targetColumns, groupBy) ==
    LET statsOf(rows) ==
            [c \in DOMAIN targetColumns |->
                computeColumnStats(targetColumns[c],
                                   extractNumericValues(rows, targetColumns[c]),
                                   Len(rows))]
        entries(names) ==
            [k \in DOMAIN names |->
                [name |-> names[k],
                 stats |-> statsOf(groupRows(csv.rows, groupBy, names[k]))]]
    IN  entries(objectKeys(uniqueGroups(csv.rows, groupBy)))

\* Lines 177-200: the diagnostics of the method.
describeDiagnostics(csv, groupBy, groups) ==
    LET small(groupSizes) ==
            Filter(groupSizes, [k \in DOMAIN groupSizes |-> groupSizes[k].n < SmallSample])
        smallDiag(smallGroups) ==
            IF Len(smallGroups) > 0
            THEN <<[kind |-> "SmallGroups", groups |-> smallGroups]>> ELSE <<>>
        groupDiag(groupSizes) ==
            <<[kind |-> "Groups", groups |-> groupSizes]>> \o smallDiag(small(groupSizes))
    IN  (IF groupBy # ""
         THEN groupDiag([k \in DOMAIN groups |->
                            [name |-> groups[k].name,
                             n |-> IF Len(groups[k].stats) > 0
                                   THEN groups[k].stats[1].count ELSE 0]])
         ELSE <<>>) \o
        (IF csv.totalRows < SmallSample THEN <<[kind |-> "SmallSample"]>> ELSE <<>>)

\* targetColumnsOf with every column of the table as the default: the fault C18
\* excludes.
targetColumnsAllHeaders(columns, csv) ==
    IF Len(columns) > 0 THEN columns ELSE csv.headers

\* Lines 132-141: the columns to analyse, the numeric ones when the call names
\* none.
targetColumnsOf(columns, csv) ==
    IF Len(columns) > 0 THEN columns ELSE csv.numericColumns

\* runDescriptiveStats (lines 124-234): the outcome of one call on the file f.
runDescriptiveStats(input, f) ==
    LET report(csv, targetColumns, groups) ==
            [kind |-> "ok",
             method |-> "Descriptive Statistics",
             dataInfo |-> [totalRows |-> csv.totalRows,
                           usedRows |-> csv.totalRows,
                           excludedRows |-> 0],
             details |-> [columns |->
                              [c \in DOMAIN targetColumns |->
                                  computeColumnStats(targetColumns[c],
                                      extractNumericValues(csv.rows, targetColumns[c]),
                                      csv.totalRows)],
                          groupBy |-> input.groupBy,
                          groups |-> groups],
             diagnostics |-> collectDiagnostics(csv.warnings,
                                    describeDiagnostics(csv, input.groupBy, groups))]
        analyze(csv, targetColumns) ==
            IF Len(input.columns) > 0 /\ Len(MissingColumns(csv.headers, input.columns)) > 0
            THEN Throw("UnknownColumn",
                       [missing |-> MissingColumns(csv.headers, input.columns),
                        available |-> csv.headers])
            ELSE IF Len(targetColumns) = 0
            THEN Throw("NoNumericColumns", <<>>)
            ELSE IF input.groupBy # "" /\ Len(MissingColumns(csv.headers, <<input.groupBy>>)) > 0
            THEN Throw("UnknownColumn",
                       [missing |-> <<input.groupBy>>, available |-> csv.headers])
            ELSE report(csv, targetColumns,
                        IF input.groupBy # ""
                        THEN groupStats(csv, targetColumns, input.groupBy)
                        ELSE <<>>)
        read(csv) ==
            IF ~csv.ok THEN Throw(csv.error, <<>>)
            ELSE analyze(csv, targetColumnsOf(input.columns, csv))
    IN  read(readDataFile(f))

(***************************************************************************)
(* The state machine.                                                      *)
(***************************************************************************)
VariableArgs == {"", "value", "zz"}

GroupByArgs == {"", "group", "zz"}

\* The alternative of a call; "" is a call without one.
Alternatives == {"", "two-sided", "less", "greater"}

TTestInputs ==
    [action : {"t_test"}, variable : VariableArgs, groupByColumn : GroupByArgs,
     paired : BOOLEAN, alternative : Alternatives]

\* The calls on the columns of the file.
StatInputs == {input \in TTestInputs : input.variable = "value" /\ input.groupByColumn # "zz"}

ColumnsArgs ==
    {<<>>, <<"value">>, <<"group", "value">>, <<"value", "group">>, <<"zz", "value", "yy">>}

GroupByDescArgs == {"", "group", "value", "zz"}

DescribeInputs ==
    [action : {"descriptive_stats"}, columns : ColumnsArgs, groupBy : GroupByDescArgs]

\* The numbers of a column of SpecColumn: finite numbers, and the two infinite
\* numbers that parseValue lets into a table.
ColumnValues == {RInt(1), RInt(2), RInt(4), Rat(1, 0), Rat(-1, 0)}

\* The numbers 1..10.
OneToTen == [i \in 1..10 |-> RInt(i)]

\* The columns of SpecColumn, as the numbers extractNumericValues returns.
ValueLists == UNION {[1..n -> ColumnValues] : n \in 0..MaxValues} \cup {OneToTen}

\* The numbers of a sample of SpecWelch: finite numbers, and Infinity, which
\* parseValue lets into a table.
SampleValues == {RInt(1), RInt(2), RInt(4), Rat(1, 0)}

\* The samples of SpecWelch, as the numbers extractNumericValues returns for a
\* group: two values or more.
Samples == UNION {[1..n -> SampleValues] : n \in 2..MaxSample}

\* n times the row.
Repeat(row, n) == [i \in 1..n |-> row]

\* The files of SpecSample: a group A of no row, one row, seven rows, or as many
\* rows as the small-sample threshold or one fewer, then rows of A without a
\* value, then a group B like A.
SampleFiles ==
    LET sizes == {0, 1, 7, SmallSample - 1, SmallSample}
    IN  {Repeat(Row("A", "1"), a) \o Repeat(Row("A", "NA"), gaps) \o Repeat(Row("B", "1"), b) :
            a \in sizes, gaps \in 0..MaxGaps, b \in sizes}

NoCall == [action |-> "none"]

NoResult == [kind |-> "none"]

Init ==
    /\ file \in FilesOf(RawRows)
    /\ call = NoCall
    /\ result = NoResult
    /\ jstat = AnyLib

InitStat ==
    /\ file \in FilesOf(NumericRows)
    /\ call = NoCall
    /\ result = NoResult
    /\ jstat = AnyLib

InitColumn ==
    /\ file = <<>>
    /\ call = NoCall
    /\ result = NoResult
    /\ jstat = AnyLib

InitSample ==
    /\ file \in SampleFiles
    /\ call = NoCall
    /\ result = NoResult
    /\ jstat = AnyLib

InitRead ==
    /\ file \in ReadFiles
    /\ call = NoCall
    /\ result = NoResult
    /\ jstat = AnyLib

\* The call of the tool with action t_test.  jStat is reached only by a call that
\* passes every check, so only then does the outcome depend on what it returns.
TTestCall(inputs) ==
    \E input \in inputs :
        /\ call = NoCall
        /\ call' = input
        /\ \E lib \in (IF tTestChecks(input, file).kind = "error"
                       THEN {AnyLib} ELSE LibOutcomes) :
               /\ jstat' = lib
               /\ result' = executeTTest(input, file, lib)
        /\ UNCHANGED file

\* The call of the tool with action descriptive_stats.
Describe ==
    \E input \in DescribeInputs :
        /\ call = NoCall
        /\ call' = input
        /\ result' = runDescriptiveStats(input, file)
        /\ UNCHANGED <<file, jstat>>

\* A call of computeColumnStats on the numbers of a column of a row subset
\* that has them and none or one row more.
ColumnStats ==
    \E values \in ValueLists : \E others \in 0..1 :
        /\ call = NoCall
        /\ call' = [action |-> "column_stats", values |-> values,
                    totalRowCount |-> Len(values) + others]
        /\ result' = [kind |-> "stats",
                      stats |-> computeColumnStats("value", values, Len(values) + others)]
        /\ UNCHANGED <<file, jstat>>

\* Lines 237-258 of runTTest for an independent test on two samples that passed
\* the checks of their sizes.
WelchStatistic ==
    \E group1Values \in Samples : \E group2Values \in Samples :
        /\ call = NoCall
        /\ call' = [action |-> "welch", group1Values |-> group1Values,
                    group2Values |-> group2Values]
        /\ result' = [kind |-> "statistic",
                      statistic |-> testStatistic(group1Values, group2Values, FALSE)]
        /\ UNCHANGED <<file, jstat>>

\* A call of readDataFile on the file.
Read ==
    /\ call = NoCall
    /\ call' = [action |-> "read"]
    /\ result' = readDataFile(file)
    /\ UNCHANGED <<file, jstat>>

TTest == TTestCall(TTestInputs)

TTestStat == TTestCall(StatInputs)

Next == TTest \/ Describe

NextStat == TTestStat

NextRead == Read \/ Describe

NextColumn == ColumnStats

NextSample == Describe

NextWelch == WelchStatistic

Spec == Init /\ [][Next]_vars

SpecStat == InitStat /\ [][NextStat]_vars

SpecRead == InitRead /\ [][NextRead]_vars

SpecColumn == InitColumn /\ [][NextColumn]_vars

SpecSample == InitSample /\ [][NextSample]_vars

SpecWelch == InitColumn /\ [][NextWelch]_vars

(***************************************************************************)
(* Reference definitions: what the specification of the tool says about a  *)
(* call, stated on the raw rows of the file.                                *)
(***************************************************************************)
\* The texts that are numbers.
NumberTexts == {NumStr[i] : i \in DOMAIN NumStr}

Min(S) == CHOOSE x \in S : \A y \in S : x <= y

\* The elements of a set of row numbers, in row order.
RECURSIVE InOrder(_)
InOrder(S) == IF S = {} THEN <<>> ELSE <<Min(S)>> \o InOrder(S \ {Min(S)})

\* The rows whose cell of the column is not missing.
Present(column) == {i \in DOMAIN file : file[i][column] \notin MISSING_VALUES}

\* The rows whose cell of the column is a number.
Numeric(column) == {i \in DOMAIN file : file[i][column] \in NumberTexts}

\* The distinct non-missing values of the column.
GroupValues(column) == {file[i][column] : i \in Present(column)}

\* The rows of the group of the column.
RowsOf(column, name) == {i \in DOMAIN file : file[i][column] = name}

\* The numbers of the column in the rows S, in row order.
NumbersAt(S, column) ==
    LET idx == InOrder(S \cap Numeric(column))
    IN  [k \in DOMAIN idx |-> RInt(NumberOf(file[idx[k]][column]))]

\* A column is numeric when more than half of its non-missing cells are numbers.
NumericColumn(column) == 2 * Cardinality(Numeric(column)) > Cardinality(Present(column))

IsTTest == call.action = "t_test"

IsDescribe == call.action = "descriptive_stats"

\* The file gives a table: it has a data row.
HasTable == Len(file) > 0

Succeeded == result.kind = "ok"

Failed(kind) == result.kind = "error" /\ result.error = kind

\* A t_test call names its columns, and they are headers of the table.
ColumnsGiven ==
    /\ call.variable # ""
    /\ call.paired \/ call.groupByColumn # ""

ColumnsKnown ==
    /\ call.variable \in HeaderSet
    /\ call.groupByColumn # "" => call.groupByColumn \in HeaderSet

\* The two samples of a t_test call whose columns are known: the groups of
\* groupByColumn in the order of their first rows, or the two halves of the
\* numbers of the variable.
FirstGroup == file[Min(Present(call.groupByColumn))][call.groupByColumn]

SecondGroup == CHOOSE name \in GroupValues(call.groupByColumn) : name # FirstGroup

AllNumbers == NumbersAt(DOMAIN file, call.variable)

Sample1 ==
    IF call.groupByColumn # ""
    THEN NumbersAt(RowsOf(call.groupByColumn, FirstGroup), call.variable)
    ELSE [k \in 1..(Len(AllNumbers) \div 2) |-> AllNumbers[k]]

Sample2 ==
    IF call.groupByColumn # ""
    THEN NumbersAt(RowsOf(call.groupByColumn, SecondGroup), call.variable)
    ELSE [k \in 1..(Len(AllNumbers) \div 2) |-> AllNumbers[Len(AllNumbers) \div 2 + k]]

\* The samples of the call cannot be formed.
NoSamples ==
    IF call.groupByColumn # ""
    THEN Cardinality(GroupValues(call.groupByColumn)) # 2
    ELSE Len(AllNumbers) % 2 # 0

\* The samples of the call are too small, or of different sizes in a paired test.
BadSamples ==
    \/ Len(Sample1) < 2
    \/ Len(Sample2) < 2
    \/ call.paired /\ Len(Sample1) # Len(Sample2)

\* The call violates one of the conditions the tool validates.
ValidationFails ==
    IF IsTTest
    THEN \/ ~ColumnsGiven
         \/ ~ColumnsKnown
         \/ NoSamples
         \/ BadSamples
    ELSE \/ \E k \in DOMAIN call.columns : call.columns[k] \notin HeaderSet
         \/ call.columns = <<>> /\ ~\E h \in HeaderSet : NumericColumn(h)
         \/ call.groupBy # "" /\ call.groupBy \notin HeaderSet

(***************************************************************************)
(* C1.  A call ends in an error without result, or in a complete result.   *)
(***************************************************************************)
ErrorKinds ==
    {"EmptyData", "UnknownColumn", "NoNumericColumns", "MissingVariable",
     "MissingGroupColumn", "GroupCount", "OddSampleSize", "InsufficientSample",
     "UnequalPairedSize"}

TTestStatistics ==
    {"testType", "tStatistic", "pValue", "degreesOfFreedom", "meanDifference",
     "confidenceInterval", "cohensD", "group1", "group2", "alternative"}

\* The result is complete: it has its data information, its diagnostics and every
\* statistic of the method.
CompleteResult ==
    /\ DOMAIN result = {"kind", "method", "dataInfo", "details", "diagnostics"}
    /\ IF IsTTest
       THEN /\ TTestStatistics \subseteq DOMAIN result.details
            /\ ~call.paired => "leveneTest" \in DOMAIN result.details
       ELSE /\ DOMAIN result.details = {"columns", "groupBy", "groups"}
            /\ Len(result.details.columns) > 0

\* C1: every call of describe or tTest ends in exactly one of two outcomes: an
\* error that carries no result (no data information, no statistic, no
\* diagnostic), or a complete result.  The call fails exactly when the file has
\* no table or a validated condition is violated, so a violated condition always
\* gives the error, without any statistic, and none of them shows up as a
\* diagnostic of a returned result.
C1_ErrorOrCompleteResult ==
    call # NoCall =>
        /\ result.kind \in {"error", "ok"}
        /\ result.kind = "error" <=> (~HasTable \/ ValidationFails)
        /\ result.kind = "error" =>
               /\ DOMAIN result = {"kind", "name", "error", "info"}
               /\ result.error \in ErrorKinds
        /\ result.kind = "ok" =>
               /\ CompleteResult
               /\ \A k \in DOMAIN result.diagnostics :
                      result.diagnostics[k].kind \notin ErrorKinds

\* A t-test stopped by the size of a sample, which it reports as an error only.
C1_Witness ==
    /\ IsTTest
    /\ HasTable /\ ColumnsGiven /\ ColumnsKnown /\ ~NoSamples /\ BadSamples
    /\ Failed("InsufficientSample")
    /\ DOMAIN result = {"kind", "name", "error", "info"}

(***************************************************************************)
(* C3.  The order of the groups of an independent test.                    *)
(***************************************************************************)
\* The mean of a non-empty sample.
Average(xs) == RDiv(Sum(xs), RInt(Len(xs)))

Negated(x) == [n |-> -x.n, d |-> x.d]

Reverse(seq) == [i \in DOMAIN seq |-> seq[Len(seq) + 1 - i]]

\* The group of the last row that has one.
LastGroup ==
    LET last == CHOOSE i \in Present(call.groupByColumn) :
                    \A j \in Present(call.groupByColumn) : j <= i
    IN  file[last][call.groupByColumn]

\* C3: in an independent tTest that returns a result, group1 is the value of
\* groupByColumn in the first row that has one and group2 is the other value (the
\* names are not sorted), and meanDifference = mean(group1) - mean(group2).  On the
\* rows in reverse order, when this brings the other group first, the groups are
\* swapped and meanDifference is negated.
C3_FirstEncounteredGroupOrder ==
    (IsTTest /\ Succeeded /\ ~call.paired) =>
        /\ result.details.group1.name = FirstGroup
        /\ result.details.group2.name = SecondGroup
        /\ result.details.group1.mean = Average(Sample1)
        /\ result.details.group2.mean = Average(Sample2)
        /\ result.details.meanDifference = RSub(Average(Sample1), Average(Sample2))
        /\ LastGroup = SecondGroup =>
               LET reordered == executeTTest(call, Reverse(file), jstat)
               IN  /\ reordered.kind = "ok"
                   /\ reordered.details.group1.name = result.details.group2.name
                   /\ reordered.details.group2.name = result.details.group1.name
                   /\ reordered.details.meanDifference =
                          Negated(result.details.meanDifference)

\* The rows of B (3, 3) come before those of A (1, 1): group1 is B and the
\* difference is 3 - 1.
C3_Witness ==
    /\ IsTTest /\ Succeeded /\ ~call.paired
    /\ file[1].group = "B"
    /\ LastGroup = "A"
    /\ result.details.group1.name = "B"
    /\ result.details.group2.name = "A"
    /\ result.details.meanDifference = RInt(2)

(***************************************************************************)
(* C4.  The number of groups of an independent test.                       *)
(***************************************************************************)
\* The elements of a sequence.
Range(seq) == {seq[k] : k \in DOMAIN seq}

\* An independent t_test on a table that has both its columns.
IndependentOnKnownColumns ==
    /\ IsTTest /\ HasTable
    /\ ~call.paired
    /\ call.variable # "" /\ call.groupByColumn # ""
    /\ ColumnsKnown

\* C4: an independent tTest whose variable and groupByColumn both exist fails
\* with GroupCountError, which carries the number and the names of the groups
\* found, whenever the number of distinct non-missing values of groupByColumn is
\* not 2 (0, 1, 3 or more); it never fails with GroupCountError when it is 2.
C4_GroupCountError ==
    IndependentOnKnownColumns =>
        LET found == GroupValues(call.groupByColumn)
        IN  IF Cardinality(found) # 2
            THEN /\ Failed("GroupCount")
                 /\ result.info.found = Cardinality(found)
                 /\ Len(result.info.groups) = Cardinality(found)
                 /\ Range(result.info.groups) = found
            ELSE ~Failed("GroupCount")

\* Three groups are found and named by the error.
C4_Witness ==
    /\ IndependentOnKnownColumns
    /\ Failed("GroupCount")
    /\ result.info.found = 3
    /\ Range(result.info.groups) = {"A", "B", "C"}

\* Two groups and rows without group: no GroupCountError.
C4_WitnessTwoGroups ==
    /\ IndependentOnKnownColumns
    /\ Cardinality(GroupValues(call.groupByColumn)) = 2
    /\ \E i \in DOMAIN file : file[i].group = ""
    /\ ~Failed("GroupCount")

(***************************************************************************)
(* C5.  The order of the validation of a t-test.                           *)
(***************************************************************************)
\* The columns of the call that are no header of the table, variable first.
UnknownColumns ==
    (IF call.variable \in HeaderSet THEN <<>> ELSE <<call.variable>>) \o
    (IF call.groupByColumn = "" \/ call.groupByColumn \in HeaderSet
     THEN <<>> ELSE <<call.groupByColumn>>)

\* C5: tTest reports the first violation in a fixed order.  (1) An empty variable
\* fails with MissingVariableError, also when groupByColumn is absent.
\* (2) Otherwise paired = false without groupByColumn fails with
\* MissingGroupColumnError, also when variable is no header.  (3) Otherwise, on a
\* table, a variable or groupByColumn that is no header fails with
\* UnknownColumnError, which carries the unmatched names and the headers.  The
\* three are decided whatever the groups and samples of the file are, so they come
\* before GroupCountError, OddSampleSizeError, InsufficientSampleError and
\* UnequalPairedSizeError, and these are reported only when the three pass.
C5_ValidationOrder ==
    IsTTest =>
        /\ Failed("MissingVariable") <=> call.variable = ""
        /\ Failed("MissingGroupColumn") <=>
               (call.variable # "" /\ ~call.paired /\ call.groupByColumn = "")
        /\ HasTable =>
               (Failed("UnknownColumn") <=> (ColumnsGiven /\ ~ColumnsKnown))
        /\ Failed("UnknownColumn") =>
               /\ result.info.missing = UnknownColumns
               /\ result.info.available = Headers
        /\ result.kind = "error" /\ result.error \in {"GroupCount", "OddSampleSize",
                                     "InsufficientSample", "UnequalPairedSize"} =>
               HasTable /\ ColumnsGiven /\ ColumnsKnown

\* The variable is no header and the column of the groups has three groups: the
\* error is UnknownColumnError, not GroupCountError.
C5_Witness ==
    /\ IsTTest /\ HasTable
    /\ call.variable = "zz" /\ call.groupByColumn = "group"
    /\ Cardinality(GroupValues("group")) = 3
    /\ Failed("UnknownColumn")
    /\ result.info.missing = <<"zz">>

\* An independent test without groupByColumn on a variable that is no header:
\* the error is MissingGroupColumnError.
C5_WitnessGroupColumn ==
    /\ IsTTest /\ HasTable
    /\ call.variable = "zz" /\ call.groupByColumn = "" /\ ~call.paired
    /\ Failed("MissingGroupColumn")

(***************************************************************************)
(* C6.  The samples of a t-test and their sizes.                           *)
(***************************************************************************)
\* The sample variance (ddof = 1) of a sample of two values or more, by the sums.
SampleVariance(xs) ==
    LET n == Len(xs)
        squares == Sum([k \in DOMAIN xs |-> RSq(xs[k])])
    IN  RDiv(RSub(squares, RDiv(RSq(Sum(xs)), RInt(n))), RInt(n - 1))

\* The names of the two samples.
Name1 == IF call.groupByColumn # "" THEN FirstGroup ELSE "First half"

Name2 == IF call.groupByColumn # "" THEN SecondGroup ELSE "Second half"

\* The sizes of the two samples, as the errors carry them.
SampleSizes ==
    [group1Name |-> Name1, n1 |-> Len(Sample1), group2Name |-> Name2, n2 |-> Len(Sample2)]

\* A t_test call on a table that passes the validation of the parameters and
\* forms two samples.
FormsSamples == IsTTest /\ HasTable /\ ColumnsGiven /\ ColumnsKnown /\ ~NoSamples

\* The group of the result is the sample xs: its size, mean and deviation.
GroupIs(group, name, xs) ==
    /\ group.name = name
    /\ group.n = Len(xs)
    /\ group.mean = Average(xs)
    /\ group.std = Sqrt(SampleVariance(xs))

\* C6: the sample of a group is the numeric, non-missing values of variable in
\* the rows of the group.  If a sample has fewer than 2 values the call fails with
\* InsufficientSampleError, which names both groups and sizes; otherwise, in
\* paired mode, samples of different sizes fail with UnequalPairedSizeError;
\* otherwise the call returns a result on these samples.  Hence every result has
\* group1.n >= 2 and group2.n >= 2, and group1.n = group2.n when testType is
\* paired.
C6_SampleSizes ==
    /\ FormsSamples =>
           IF Len(Sample1) < 2 \/ Len(Sample2) < 2
           THEN Failed("InsufficientSample") /\ result.info = SampleSizes
           ELSE IF call.paired /\ Len(Sample1) # Len(Sample2)
           THEN Failed("UnequalPairedSize") /\ result.info = SampleSizes
           ELSE /\ Succeeded
                /\ GroupIs(result.details.group1, Name1, Sample1)
                /\ GroupIs(result.details.group2, Name2, Sample2)
    /\ (IsTTest /\ Succeeded) =>
           /\ result.details.group1.n >= 2
           /\ result.details.group2.n >= 2
           /\ result.details.testType = "paired" =>
                  result.details.group1.n = result.details.group2.n
    /\ (IsTTest /\ result.kind = "error"
            /\ result.error \in {"InsufficientSample", "UnequalPairedSize"}) =>
           FormsSamples /\ BadSamples

\* Group A has two rows but one number: the error names the sizes 1 and 2.
C6_Witness ==
    /\ FormsSamples /\ call.groupByColumn = "group"
    /\ Cardinality(RowsOf("group", "A")) = 2
    /\ Failed("InsufficientSample")
    /\ result.info = [group1Name |-> "A", n1 |-> 1, group2Name |-> "B", n2 |-> 2]

\* A paired test on groups of 2 and 3 values.
C6_WitnessUnequal ==
    /\ FormsSamples /\ call.paired
    /\ Failed("UnequalPairedSize")
    /\ result.info.n1 = 2 /\ result.info.n2 = 3

\* A result on a group that has a row without number.
C6_WitnessResult ==
    /\ FormsSamples /\ Succeeded /\ call.groupByColumn = "group"
    /\ Cardinality(RowsOf("group", "A")) = 3
    /\ result.details.group1.n = 2 /\ result.details.group2.n = 2

(***************************************************************************)
(* C7.  The paired test without groupByColumn.                             *)
(***************************************************************************)
\* The t statistic of the paired differences d (two or more).
PairedT(d) ==
    LET variance_se == RDiv(SampleVariance(d), RInt(Len(d)))
    IN  IF RIsZero(variance_se) THEN SurdZero
        ELSE [sgn |-> RSign(Average(d)), sq |-> RDiv(RSq(Average(d)), variance_se)]

\* A paired t_test without groupByColumn on a variable of the table.
PairedHalves ==
    /\ IsTTest /\ HasTable
    /\ call.paired /\ call.groupByColumn = ""
    /\ call.variable \in HeaderSet

\* C7: in paired mode without groupByColumn, tTest takes the numbers of variable
\* over all rows in row order, the missing and non-numeric cells being removed
\* before the split.  An odd count fails with OddSampleSizeError; otherwise, with
\* count 2m, group1 is the values 1..m with the label "First half", group2 the
\* values m+1..2m with the label "Second half", and pair i is (value i, value m+i).
C7_PairedHalves ==
    PairedHalves =>
        LET m == Len(AllNumbers) \div 2
            first == [k \in 1..m |-> AllNumbers[k]]
            second == [k \in 1..m |-> AllNumbers[m + k]]
            pairs == [k \in 1..m |-> RSub(AllNumbers[k], AllNumbers[m + k])]
        IN  IF Len(AllNumbers) % 2 # 0
            THEN Failed("OddSampleSize") /\ result.info.got = Len(AllNumbers)
            ELSE IF m < 2
            THEN Failed("InsufficientSample")
            ELSE /\ Succeeded
                 /\ GroupIs(result.details.group1, "First half", first)
                 /\ GroupIs(result.details.group2, "Second half", second)
                 /\ result.details.tStatistic = PairedT(pairs)

\* Five rows, the second without number: the numbers 1, 3, 1, 1 give the pairs
\* (1, 1) and (3, 1).
C7_Witness ==
    /\ PairedHalves /\ Succeeded
    /\ Len(file) = 5
    /\ file[2].value \notin NumberTexts
    /\ AllNumbers = <<RInt(1), RInt(3), RInt(1), RInt(1)>>
    /\ result.details.group1.name = "First half"
    /\ result.details.group1.mean = RInt(2)
    /\ result.details.group2.mean = RInt(1)
    /\ result.details.tStatistic = [sgn |-> 1, sq |-> RInt(1)]

\* Three numbers: the count is odd.
C7_WitnessOdd ==
    /\ PairedHalves
    /\ Failed("OddSampleSize")
    /\ result.info.got = 3

(***************************************************************************)
(* C8.  Welch's statistic of the independent test.                         *)
(***************************************************************************)
\* (mean1 - mean2) / sqrt(se2), or 0 when se2 = 0.
Ratio(difference, se2) ==
    IF RIsZero(se2) THEN SurdZero
    ELSE [sgn |-> RSign(difference), sq |-> RDiv(RSq(difference), se2)]

\* C8: in independent mode, with a = var1/n1 and b = var2/n2 for the sample
\* variances (ddof = 1) of the two samples, the standard error is sqrt(a + b);
\* tStatistic = (mean1 - mean2)/se, or 0 when se = 0 even if the means differ;
\* degreesOfFreedom = (a+b)^2 / (a^2/(n1-1) + b^2/(n2-1)), or n1+n2-2 when that
\* denominator is 0.
C8_WelchStatistic ==
    (IsTTest /\ Succeeded /\ ~call.paired) =>
        LET n1 == Len(Sample1)
            n2 == Len(Sample2)
            a == RDiv(SampleVariance(Sample1), RInt(n1))
            b == RDiv(SampleVariance(Sample2), RInt(n2))
            difference == RSub(Average(Sample1), Average(Sample2))
            denominator == RAdd(RDiv(RSq(a), RInt(n1 - 1)), RDiv(RSq(b), RInt(n2 - 1)))
        IN  /\ result.details.testType = "independent"
            /\ result.details.confidenceInterval.upper.se = Sqrt(RAdd(a, b))
            /\ result.details.tStatistic = Ratio(difference, RAdd(a, b))
            /\ result.details.degreesOfFreedom =
                   IF RIsZero(denominator) THEN RInt(n1 + n2 - 2)
                   ELSE RDiv(RSq(RAdd(a, b)), denominator)

\* A = (1, 2) and B = (1, 3, 3): a = 1/4, b = 4/9, t = -(5/6)/sqrt(25/36) = -1 and
\* df = (25/36)^2 / (1/16 + 8/81) = 625/209.
C8_Witness ==
    /\ IsTTest /\ Succeeded /\ ~call.paired
    /\ Sample1 = <<RInt(1), RInt(2)>>
    /\ Sample2 = <<RInt(1), RInt(3), RInt(3)>>
    /\ result.details.tStatistic = [sgn |-> -1, sq |-> RInt(1)]
    /\ result.details.degreesOfFreedom = Rat(625, 209)

\* A = (1, 1) and B = (3, 3): the means differ, se = 0, t = 0 and df = 2.
C8_WitnessZero ==
    /\ IsTTest /\ Succeeded /\ ~call.paired
    /\ result.details.meanDifference = RInt(-2)
    /\ result.details.confidenceInterval.upper.se = SurdZero
    /\ result.details.tStatistic = SurdZero
    /\ result.details.degreesOfFreedom = RInt(2)

TwoSidedPValue ==
    executeTTest([call EXCEPT !.alternative = "two-sided"], file, jstat).details.pValue

\* C10: with c the value of the t distribution function at tStatistic, pValue = c
\* for the alternative less, 1 - c for greater and 2 min(c, 1 - c) for two-sided,
\* which is the alternative of a call that gives none.  So when the difference
\* lies in the direction of a one-sided alternative (tStatistic > 0 with greater,
\* tStatistic < 0 with less), the pValue is half the two-sided pValue of the same
\* call.
C10_PValue ==
    (IsTTest /\ Succeeded) =>
        LET c == studenttCdf(result.details.tStatistic, jstat)
            upper == RSub(RInt(1), c)
            twoSided == RMul(RInt(2), IF RLt(upper, c) THEN upper ELSE c)
            t == result.details.tStatistic.sgn
        IN  /\ call.alternative = "less" => result.details.pValue = c
            /\ call.alternative = "greater" => result.details.pValue = upper
            /\ call.alternative \in {"", "two-sided"} =>
                   /\ result.details.pValue = twoSided
                   /\ result.details.alternative = "two-sided"
            /\ TwoSidedPValue = twoSided
            /\ (t > 0 /\ call.alternative = "greater") \/ (t < 0 /\ call.alternative = "less") =>
                   RMul(RInt(2), result.details.pValue) = TwoSidedPValue

\* A test with t < 0 and the alternative less: the pValue 1/4 is half the
\* two-sided 1/2.
C10_Witness ==
    /\ IsTTest /\ Succeeded
    /\ call.alternative = "less"
    /\ result.details.tStatistic.sgn < 0
    /\ result.details.pValue = Rat(1, 4)
    /\ TwoSidedPValue = Rat(1, 2)

\* A call without alternative is two-sided.
C10_WitnessDefault ==
    /\ IsTTest /\ Succeeded
    /\ call.alternative = ""
    /\ result.details.tStatistic.sgn > 0
    /\ result.details.pValue = Rat(1, 2)

(***************************************************************************)
(* C11.  The confidence interval of the mean difference.                   *)
(***************************************************************************)
\* The standard error of the mean difference of the two samples of the call.
StandardError ==
    IF call.paired
    THEN LET d == [k \in DOMAIN Sample1 |-> RSub(Sample1[k], Sample2[k])]
         IN  Sqrt(RDiv(SampleVariance(d), RInt(Len(d))))
    ELSE Sqrt(RAdd(RDiv(SampleVariance(Sample1), RInt(Len(Sample1))),
                   RDiv(SampleVariance(Sample2), RInt(Len(Sample2)))))

\* The sign of bound - mid for a bound mid + k * se of the interval.
OffsetSign(bound) == RSign(bound.k) * bound.se.sgn

\* The confidence interval of the same call with the alternative a.
IntervalWith(a) ==
    executeTTest([call EXCEPT !.alternative = a], file, jstat).details.confidenceInterval

C11_WitnessZero ==
    /\ IsTTest /\ Succeeded
    /\ StandardError = SurdZero
    /\ OffsetSign(result.details.confidenceInterval.lower) = 0
    /\ OffsetSign(result.details.confidenceInterval.upper) = 0

(***************************************************************************)
(* C12.  The effect size.                                                  *)
(***************************************************************************)
\* The pooled variance of the two samples of the call.
PooledVariance ==
    LET n1 == Len(Sample1)
        n2 == Len(Sample2)
    IN  RDiv(RAdd(RMul(RInt(n1 - 1), SampleVariance(Sample1)),
                  RMul(RInt(n2 - 1), SampleVariance(Sample2))),
             RInt(n1 + n2 - 2))

C12_WitnessPaired ==
    /\ IsTTest /\ Succeeded /\ call.paired
    /\ Sample1 = <<RInt(1), RInt(2)>>
    /\ Sample2 = <<RInt(3), RInt(1)>>
    /\ result.details.cohensD = [sgn |-> -1, sq |-> Rat(1, 18)]

\* The means differ and both samples are constant: cohensD = 0.
C12_WitnessZero ==
    /\ IsTTest /\ Succeeded /\ ~call.paired
    /\ result.details.meanDifference = RInt(-2)
    /\ result.details.cohensD = SurdZero

(***************************************************************************)
(* C13.  Levene's test of the independent test.                            *)
(***************************************************************************)
\* The k-th smallest value of a sample.
KthSmallest(xs, k) ==
    LET x == CHOOSE i \in DOMAIN xs :
                 /\ Cardinality({j \in DOMAIN xs : RLt(xs[j], xs[i])}) < k
                 /\ Cardinality({j \in DOMAIN xs : RLe(xs[j], xs[i])}) >= k
    IN  xs[x]

\* The median of a sample.
Median(xs) ==
    LET n == Len(xs)
    IN  IF n % 2 = 1 THEN KthSmallest(xs, (n + 1) \div 2)
        ELSE RDiv(RAdd(KthSmallest(xs, n \div 2), KthSmallest(xs, n \div 2 + 1)), RInt(2))

\* The absolute deviations of the values of a sample from its median.
MedianDeviations(xs) ==
    LET m == Median(xs)
    IN  [k \in DOMAIN xs |->
            IF RLt(xs[k], m) THEN RSub(m, xs[k]) ELSE RSub(xs[k], m)]

\* The one-way analysis of variance of two samples of two values or more: the
\* sum of squares between the samples is n1 n2 (mean1 - mean2)^2 / N and the one
\* within a sample is (n - 1) times its variance.
SSBetween(z1, z2) ==
    RDiv(RMul(RInt(Len(z1) * Len(z2)), RSq(RSub(Average(z1), Average(z2)))),
         RInt(Len(z1) + Len(z2)))

SSWithin(z1, z2) ==
    RAdd(RMul(RInt(Len(z1) - 1), SampleVariance(z1)),
         RMul(RInt(Len(z2) - 1), SampleVariance(z2)))

\* The Brown-Forsythe test of the two samples of the call; jstat.fcdf is the
\* value of the F distribution function at a statistic F > 0.
BrownForsythe ==
    LET z1 == MedianDeviations(Sample1)
        z2 == MedianDeviations(Sample2)
        within == SSWithin(z1, z2)
        F == RDiv(SSBetween(z1, z2), RDiv(within, RInt(Len(z1) + Len(z2) - 2)))
    IN  IF RIsZero(within) THEN [fStatistic |-> RZero, pValue |-> RInt(1)]
        ELSE [fStatistic |-> F,
              pValue |-> IF RIsZero(F) THEN RInt(1) ELSE RSub(RInt(1), jstat.fcdf)]

\* The result has the diagnostic of unequal variances.
WarnsUnequalVariances ==
    \E k \in DOMAIN result.diagnostics : result.diagnostics[k].kind = "UnequalVariances"

\* C13: a result of tTest carries leveneTest exactly when the test is independent.
\* It is the Brown-Forsythe variant: the absolute deviations of the observations
\* from the median of their group, then F = (SSbetween/1)/(SSwithin/(N-2)) on the
\* deviations with N = n1 + n2, and F = 0, p = 1 when SSwithin = 0.  The
\* diagnostic of unequal variances is added exactly when its p-value is < 0.05.
C13_LeveneTest ==
    (IsTTest /\ Succeeded) =>
        /\ "leveneTest" \in DOMAIN result.details <=> ~call.paired
        /\ "leveneTest" \in DOMAIN result.details <=>
               result.details.testType = "independent"
        /\ ~call.paired => result.details.leveneTest = BrownForsythe
        /\ WarnsUnequalVariances <=>
               (~call.paired /\ RLt(BrownForsythe.pValue, Rat(5, 100)))

\* A = (1, 1, 2) and B = (1, 3): the deviations from the medians 1 and 2 are
\* (0, 0, 1) and (1, 1), F = (8/15)/((2/3)/3) = 12/5, and the p-value 1/100
\* gives the diagnostic.
C13_Witness ==
    /\ IsTTest /\ Succeeded /\ ~call.paired
    /\ Sample1 = <<RInt(1), RInt(1), RInt(2)>>
    /\ Sample2 = <<RInt(1), RInt(3)>>
    /\ result.details.leveneTest = [fStatistic |-> Rat(12, 5), pValue |-> Rat(1, 100)]
    /\ WarnsUnequalVariances

\* The same F with the p-value 1/2: no diagnostic.
C13_WitnessNoWarning ==
    /\ IsTTest /\ Succeeded /\ ~call.paired
    /\ result.details.leveneTest = [fStatistic |-> Rat(12, 5), pValue |-> Rat(1, 2)]
    /\ ~WarnsUnequalVariances

\* A = (1, 2) and B = (1, 3): the deviations (1/2, 1/2) and (1, 1) differ between
\* the groups but not within them, so F = 0 and p = 1.
C13_WitnessZero ==
    /\ IsTTest /\ Succeeded /\ ~call.paired
    /\ Sample1 = <<RInt(1), RInt(2)>>
    /\ Sample2 = <<RInt(1), RInt(3)>>
    /\ result.details.leveneTest = [fStatistic |-> RZero, pValue |-> RInt(1)]
    /\ ~WarnsUnequalVariances

\* A paired result has no leveneTest.
C13_WitnessPaired ==
    /\ IsTTest /\ Succeeded /\ call.paired
    /\ "leveneTest" \notin DOMAIN result.details
    /\ result.details.testType = "paired"

(***************************************************************************)
(* Reference definitions of the table of a file.                           *)
(***************************************************************************)
IsRead == call.action = "read"

\* The file was read into a table.
TableRead == IsRead /\ result.ok

\* The raw text of a cell; a record that ends before the column has none.
RawText(i, column) == IF column \in DOMAIN file[i] THEN file[i][column] ELSE ""

\* The headers of the table of a file with a data row: the columns of its first
\* record.
TableHeaders == {h \in HeaderSet : h \in DOMAIN file[1]}

\* The rows of the table whose cell of the column is missing, a number, present.
MissingAt(column) == {i \in DOMAIN result.rows : result.rows[i][column].t = "null"}

NumbersIn(column) == {i \in DOMAIN result.rows : result.rows[i][column].t = "number"}

PresentIn(column) == DOMAIN result.rows \ MissingAt(column)

(***************************************************************************)
(* C14.  The value of a cell.                                              *)
(***************************************************************************)
\* The vocabulary of the missing values.
MissingVocabulary == {"", "NA", "NaN", "nan", "null", "NULL", "N/A", "n/a", ".", "-"}

\* The texts of the model that parse, as a whole, as a finite number.
FiniteNumberTexts == {"1", "2", "3"}

\* The kind of cell the text becomes: missing, number or string.
CellKind(text) ==
    IF Trim(text) \in MissingVocabulary THEN "null"
    ELSE IF Trim(text) \in FiniteNumberTexts THEN "number"
    ELSE "string"

\* C14: every raw cell becomes exactly one cell value: missing iff its trimmed
\* text is in the vocabulary (case-sensitive), otherwise a number iff the whole
\* trimmed text parses as a finite number, otherwise the trimmed text as a string.
C14_CellValue ==
    TableRead =>
        \A i \in DOMAIN file : \A h \in TableHeaders :
            LET cell == result.rows[i][h]
                text == Trim(RawText(i, h))
            IN  /\ cell.t = CellKind(RawText(i, h))
                /\ cell.t = "number" => cell = NumberCell(NumberOf(text))
                /\ cell.t = "string" => cell = StringCell(text)

\* C14 for the texts other than "Infinity" and "-Infinity": the vocabulary, the other case, the
\* white space and the texts that start with a number are as the claim says.
C14_CellValueOfFiniteTexts ==
    TableRead =>
        \A i \in DOMAIN file : \A h \in TableHeaders :
            LET cell == result.rows[i][h]
                text == Trim(RawText(i, h))
            IN  text \notin {"Infinity", "-Infinity"} =>
                    /\ cell.t = CellKind(RawText(i, h))
                    /\ cell.t = "number" => cell = NumberCell(NumberOf(text))
                    /\ cell.t = "string" => cell = StringCell(text)

\* The text "Infinity" is read as a number cell.
C14_InfinityIsNumber ==
    /\ TableRead
    /\ "value" \in TableHeaders
    /\ \E i \in DOMAIN file :
           /\ RawText(i, "value") = "Infinity"
           /\ result.rows[i].value.t = "number"

(***************************************************************************)
(* C15.  The type of a column.                                             *)
(***************************************************************************)
\* C15: every header of the table is numeric or categorical and not both; it is
\* numeric iff the column has a non-missing cell and more than half of its
\* non-missing cells are numbers.  A column of exactly half numbers, and a column
\* of missing cells only, is categorical.
C15_ColumnType ==
    TableRead =>
        /\ Range(result.headers) = TableHeaders
        /\ Range(result.numericColumns) \cup Range(result.categoricalColumns) =
               TableHeaders
        /\ Range(result.numericColumns) \cap Range(result.categoricalColumns) = {}
        /\ \A h \in TableHeaders :
               h \in Range(result.numericColumns) <=>
                   /\ PresentIn(h) # {}
                   /\ 2 * Cardinality(NumbersIn(h)) > Cardinality(PresentIn(h))

\* A column of one number and one string is categorical.
C15_Witness ==
    /\ TableRead
    /\ "value" \in TableHeaders
    /\ Cardinality(PresentIn("value")) = 2
    /\ Cardinality(NumbersIn("value")) = 1
    /\ result.categoricalColumns = <<"group", "value">>
    /\ result.numericColumns = <<>>

\* A column of two numbers and one string is numeric.
C15_WitnessNumeric ==
    /\ TableRead
    /\ "value" \in TableHeaders
    /\ Cardinality(PresentIn("value")) = 3
    /\ Cardinality(NumbersIn("value")) = 2
    /\ "value" \in Range(result.numericColumns)
    /\ "value" \notin Range(result.categoricalColumns)

\* A column without non-missing cell is categorical.
C15_WitnessAllMissing ==
    /\ TableRead
    /\ "value" \in TableHeaders
    /\ PresentIn("value") = {}
    /\ "value" \in Range(result.categoricalColumns)

(***************************************************************************)
(* C16.  The rows and the missing counts of a table.                       *)
(***************************************************************************)
\* C16: in every table each row has an entry (number, string or missing) for
\* every header, and for every header c, missingCounts[c] is the number of rows
\* whose c cell is missing, so 0 <= missingCounts[c] <= rows.length, and
\* totalRows = rows.length.
C16_TableInvariant ==
    TableRead =>
        /\ \A i \in DOMAIN result.rows :
               /\ DOMAIN result.rows[i] = Range(result.headers)
               /\ \A h \in Range(result.headers) :
                      result.rows[i][h].t \in {"number", "string", "null"}
        /\ DOMAIN result.missingValueCounts = Range(result.headers)
        /\ \A c \in Range(result.headers) :
               /\ result.missingValueCounts[c] = Cardinality(MissingAt(c))
               /\ result.missingValueCounts[c] =
                      Cardinality({i \in DOMAIN file :
                                      Trim(RawText(i, c)) \in MissingVocabulary})
               /\ result.missingValueCounts[c] >= 0
               /\ result.missingValueCounts[c] <= Len(result.rows)
        /\ result.totalRows = Len(result.rows)
        /\ Len(result.rows) = Len(file)

\* A record that ends before the column value, a row with "NA" and a row with a
\* number: the rows have a cell for value, two of them missing.
C16_Witness ==
    /\ TableRead
    /\ Len(file) = 3
    /\ "value" \in TableHeaders
    /\ \E i \in DOMAIN file : "value" \notin DOMAIN file[i]
    /\ \E i \in DOMAIN file : RawText(i, "value") = "NA"
    /\ \A i \in DOMAIN result.rows : DOMAIN result.rows[i] = {"group", "value"}
    /\ result.missingValueCounts.value = 2
    /\ result.totalRows = 3

(***************************************************************************)
(* C17.  The file without data rows.                                       *)
(***************************************************************************)
\* C17: reading fails with EmptyDataError when the file has no data row (a header
\* row alone), and then there is no table; it never fails with EmptyDataError
\* when the file has a data row.  So do the calls of describe on the file.
C17_EmptyData ==
    /\ IsRead =>
           IF Len(file) = 0
           THEN result = [ok |-> FALSE, error |-> "EmptyData"]
           ELSE result.ok /\ Len(result.rows) = Len(file)
    /\ IsDescribe => (Failed("EmptyData") <=> Len(file) = 0)

\* The file of a header row alone.
C17_Witness ==
    /\ IsRead
    /\ file = <<>>
    /\ ~result.ok /\ result.error = "EmptyData"
    /\ DOMAIN result = {"ok", "error"}

\* The file of one data row is read.
C17_WitnessOneRow ==
    /\ IsRead
    /\ Len(file) = 1
    /\ result.ok /\ result.totalRows = 1

(***************************************************************************)
(* Reference definitions of a call of describe on the table of the file.   *)
(***************************************************************************)
\* The table the call is given: the file as the reader returns it.
Table == readDataFile(file)

\* The elements of a set of headers, in header order.
InHeaderOrder(S) == Filter(Headers, [j \in DOMAIN Headers |-> Headers[j] \in S])

\* The names of the columns of a sequence of ColumnStats.
ColumnNames(stats) == [k \in DOMAIN stats |-> stats[k].column]

\* A call of describe on a table.
DescribesTable == IsDescribe /\ HasTable

\* The groupBy of the call is absent or a header.
GroupByKnown == call.groupBy = "" \/ call.groupBy \in TableHeaders

(***************************************************************************)
(* C18.  The columns of a call of describe that names none.                *)
(***************************************************************************)
\* C18: a call of describe without columns analyses exactly the numeric columns of
\* the table, in header order, and fails with NoNumericColumnsError when the table
\* has none; a categorical column is analysed only when the call names it.
C18_DefaultColumns ==
    DescribesTable =>
        LET numeric == Range(Table.numericColumns)
        IN  /\ call.columns = <<>> =>
                   IF numeric = {} THEN Failed("NoNumericColumns")
                   ELSE IF GroupByKnown
                   THEN /\ Succeeded
                        /\ ColumnNames(result.details.columns) = InHeaderOrder(numeric)
                        /\ \A k \in DOMAIN result.details.groups :
                               ColumnNames(result.details.groups[k].stats) =
                                   InHeaderOrder(numeric)
                   ELSE Failed("UnknownColumn")
            /\ Failed("NoNumericColumns") => call.columns = <<>> /\ numeric = {}
            /\ Succeeded =>
                   \A k \in DOMAIN result.details.columns :
                       result.details.columns[k].column \in
                           Range(Table.categoricalColumns) =>
                               result.details.columns[k].column \in Range(call.columns)

\* Both columns are numeric: they are analysed in header order.
C18_Witness ==
    /\ DescribesTable /\ Succeeded
    /\ call.columns = <<>>
    /\ Table.numericColumns = <<"group", "value">>
    /\ ColumnNames(result.details.columns) = <<"group", "value">>

\* The column group is categorical: the call without columns leaves it out.
C18_WitnessCategorical ==
    /\ DescribesTable /\ Succeeded
    /\ call.columns = <<>>
    /\ Table.categoricalColumns = <<"group">>
    /\ ColumnNames(result.details.columns) = <<"value">>

\* No column is numeric.
C18_WitnessNone ==
    /\ DescribesTable
    /\ call.columns = <<>>
    /\ Table.categoricalColumns = <<"group", "value">>
    /\ Failed("NoNumericColumns")

(***************************************************************************)
(* C19.  The columns of a call of describe that names some.                *)
(***************************************************************************)
\* The names the call requests that are no header of the table, in request order.
UnmatchedColumns ==
    LET unmatched == {k \in DOMAIN call.columns : call.columns[k] \notin TableHeaders}
        position(j) == Cardinality({k \in unmatched : k <= j})
    IN  [n \in 1..Cardinality(unmatched) |->
            call.columns[CHOOSE j \in unmatched : position(j) = n]]

\* C19 as stated: a call of describe with columns fails with UnknownColumnError
\* exactly when a requested name is no header; the error lists every unmatched
\* requested name in request order with all headers; otherwise the result has one
\* ColumnStats per requested column, in request order, categorical ones included.
C19_RequestedColumns ==
    (DescribesTable /\ call.columns # <<>>) =>
        /\ Failed("UnknownColumn") <=> UnmatchedColumns # <<>>
        /\ Failed("UnknownColumn") =>
               /\ result.info.missing = UnmatchedColumns
               /\ result.info.available = Table.headers
        /\ UnmatchedColumns = <<>> =>
               /\ Succeeded
               /\ ColumnNames(result.details.columns) = call.columns

\* C19, amended: a call of describe with columns fails with UnknownColumnError
\* exactly when a requested name is no header or the groupBy it gives is no
\* header.  When a requested name is unmatched the error lists every unmatched
\* requested name in request order with all headers; when only the groupBy is
\* unmatched it lists the groupBy with all headers; otherwise the result has one
\* ColumnStats per requested column, in request order, categorical ones included.
C19_RequestedColumnsAndGroupBy ==
    (DescribesTable /\ call.columns # <<>>) =>
        /\ Failed("UnknownColumn") <=> (UnmatchedColumns # <<>> \/ ~GroupByKnown)
        /\ UnmatchedColumns # <<>> =>
               /\ Failed("UnknownColumn")
               /\ result.info.missing = UnmatchedColumns
               /\ result.info.available = Table.headers
        /\ (UnmatchedColumns = <<>> /\ ~GroupByKnown) =>
               /\ Failed("UnknownColumn")
               /\ result.info.missing = <<call.groupBy>>
               /\ result.info.available = Table.headers
        /\ (UnmatchedColumns = <<>> /\ GroupByKnown) =>
               /\ Succeeded
               /\ ColumnNames(result.details.columns) = call.columns
               /\ \A k \in DOMAIN result.details.groups :
                      ColumnNames(result.details.groups[k].stats) = call.columns

\* Two requested names are no header: both are listed, in request order.
C19_Witness ==
    /\ DescribesTable
    /\ call.columns = <<"zz", "value", "yy">>
    /\ "value" \in TableHeaders
    /\ Failed("UnknownColumn")
    /\ result.info.missing = <<"zz", "yy">>
    /\ result.info.available = <<"group", "value">>

\* A categorical column is requested, before the numeric one.
C19_WitnessCategorical ==
    /\ DescribesTable /\ Succeeded
    /\ call.columns = <<"value", "group">>
    /\ Table.categoricalColumns = <<"value">>
    /\ ColumnNames(result.details.columns) = <<"value", "group">>

\* Every requested name is a header and the groupBy is not.
C19_WitnessGroupBy ==
    /\ DescribesTable
    /\ call.columns = <<"value">>
    /\ "value" \in TableHeaders
    /\ call.groupBy = "zz"
    /\ Failed("UnknownColumn")
    /\ result.info.missing = <<"zz">>

(***************************************************************************)
(* C20.  The groups of a call of describe with groupBy.                    *)
(***************************************************************************)
\* The rows whose cell of the groupBy column is not missing.
GroupedRows(rows) == {i \in DOMAIN rows : rows[i][call.groupBy].t # "null"}

\* The group of a row: its cell of the groupBy column, as a string.
GroupOf(rows, i) == String(rows[i][call.groupBy])

\* The rows of the group k.
MembersOf(rows, k) == {i \in GroupedRows(rows) : GroupOf(rows, i) = k}

\* The rows of S whose cell of the column is a number.
NumbersWithin(rows, S, column) == {i \in S : rows[i][column].t = "number"}

\* The mean of the numbers of the column in the rows S.
MeanWithin(rows, S, column) ==
    LET idx == InOrder(NumbersWithin(rows, S, column))
    IN  Average([n \in DOMAIN idx |-> ValueOf(rows[idx[n]][column])])

\* The call fails for its columns before the groupBy is looked at.
NoColumnToAnalyse == call.columns = <<>> /\ Table.numericColumns = <<>>

\* The groups of the result are the distinct non-missing stringified values of
\* the groupBy column, each once, and the ColumnStats of a group are those of its
\* rows, with its row count as the basis of missingCount.
GroupsArePartition ==
    LET groups == result.details.groups
        rows == Table.rows
        partition(grouped) ==
            /\ {groups[k].name : k \in DOMAIN groups} = {GroupOf(rows, i) : i \in grouped}
            /\ \A j, k \in DOMAIN groups : groups[j].name = groups[k].name => j = k
        statsHold(members, numbers, stats) ==
            /\ stats.count = Cardinality(numbers)
            /\ stats.missingCount = Cardinality(members) - Cardinality(numbers)
            /\ numbers # {} => stats.mean = MeanWithin(rows, members, stats.column)
        groupHolds(members, group) ==
            /\ members # {}
            /\ \A c \in DOMAIN group.stats :
                   statsHold(members, NumbersWithin(rows, members, group.stats[c].column),
                             group.stats[c])
    IN  /\ partition(GroupedRows(rows))
        /\ \A k \in DOMAIN groups : groupHolds(MembersOf(rows, groups[k].name), groups[k])

\* C20 as stated: a call of describe with groupBy = g fails with
\* UnknownColumnError when g is no header; otherwise the groups are the distinct
\* non-missing stringified values of g, a row is in the group its g cell
\* stringifies to and a row with a missing g cell in none, and the ColumnStats of
\* a group are computed from its rows only, with its row count as the basis of
\* missingCount.
C20_Groups ==
    (DescribesTable /\ call.groupBy # "") =>
        /\ call.groupBy \notin TableHeaders => Failed("UnknownColumn")
        /\ Succeeded => GroupsArePartition

\* C20, amended: as C20, but a call that names no columns on a table without a
\* numeric column fails with NoNumericColumnsError whether or not g is a header;
\* every other call whose g is no header fails with UnknownColumnError.
C20_GroupsOfAnalysedColumns ==
    (DescribesTable /\ call.groupBy # "") =>
        /\ (call.groupBy \notin TableHeaders /\ ~NoColumnToAnalyse) =>
               Failed("UnknownColumn")
        /\ NoColumnToAnalyse => Failed("NoNumericColumns")
        /\ Succeeded => call.groupBy \in TableHeaders /\ GroupsArePartition

\* Two groups, and a row with a missing groupBy cell that is in neither.
C20_Witness ==
    /\ DescribesTable /\ Succeeded
    /\ call.groupBy = "group"
    /\ Len(result.details.groups) = 2
    /\ GroupedRows(Table.rows) # DOMAIN Table.rows
    /\ \A k \in DOMAIN result.details.groups :
           result.details.groups[k].stats[1].count > 0

\* A group of two rows, smaller than the table, with one number and one cell
\* that is none in the analysed column.
C20_WitnessMissing ==
    /\ DescribesTable /\ Succeeded
    /\ Len(Table.rows) = 3
    /\ \E k \in DOMAIN result.details.groups :
           /\ result.details.groups[k].stats[1].missingCount = 1
           /\ result.details.groups[k].stats[1].count = 1

\* The groupBy column holds numbers: its groups are their decimal texts.
C20_WitnessNumbers ==
    /\ DescribesTable /\ Succeeded
    /\ call.groupBy = "group"
    /\ {result.details.groups[k].name : k \in DOMAIN result.details.groups} = {"1", "2"}

\* The groupBy is no header and the call has a column to analyse.
C20_WitnessUnknown ==
    /\ DescribesTable
    /\ call.groupBy = "zz"
    /\ call.columns = <<>>
    /\ Table.numericColumns # <<>>
    /\ Failed("UnknownColumn")

(***************************************************************************)
(* C21.  The counts of a ColumnStats.                                      *)
(***************************************************************************)
\* Every number of the ColumnStats is NaN.
AllNaN(stats) ==
    /\ \A f \in {"mean", "min", "q1", "median", "q3", "max", "kurtosis"} : stats[f] = NaN
    /\ stats.std = SurdNaN /\ stats.skewness = SurdNaN

\* The counts of a ColumnStats are those of the rows S of the table.
CountsOf(rows, S, stats) ==
    /\ stats.count = Cardinality(NumbersWithin(rows, S, stats.column))
    /\ stats.count + stats.missingCount = Cardinality(S)
    /\ stats.count = 0 => AllNaN(stats) /\ stats.missingCount = Cardinality(S)

\* C21: every ColumnStats of a result, over the whole table or over one group,
\* has for count the number of number cells of its column in those rows and
\* count + missingCount = the number of those rows; when count = 0 its nine
\* statistics are NaN and missingCount is the number of those rows.
C21_Counts ==
    (DescribesTable /\ Succeeded) =>
        LET rows == Table.rows
            columns == result.details.columns
            groups == result.details.groups
        IN  /\ \A c \in DOMAIN columns : CountsOf(rows, DOMAIN rows, columns[c])
            /\ \A k \in DOMAIN groups : \A c \in DOMAIN groups[k].stats :
                   CountsOf(rows, MembersOf(rows, groups[k].name), groups[k].stats[c])

\* A column with a number, a text and a missing cell: count 1, missingCount 2.
C21_Witness ==
    /\ DescribesTable /\ Succeeded
    /\ Len(Table.rows) = 3
    /\ \E c \in DOMAIN result.details.columns :
           LET stats == result.details.columns[c]
               cells == {Table.rows[i][stats.column].t : i \in DOMAIN Table.rows}
           IN  /\ cells = {"number", "string", "null"}
               /\ stats.count = 1 /\ stats.missingCount = 2

\* A group without a number in the column: its statistics are NaN.
C21_WitnessEmpty ==
    /\ DescribesTable /\ Succeeded
    /\ \E k \in DOMAIN result.details.groups :
           /\ result.details.groups[k].stats[1].count = 0
           /\ result.details.groups[k].stats[1].missingCount = 2
           /\ AllNaN(result.details.groups[k].stats[1])
    /\ \E c \in DOMAIN result.details.columns : result.details.columns[c].count > 0

(***************************************************************************)
(* C22.  The order of the quantiles of a ColumnStats.                      *)
(***************************************************************************)
IsColumnStats == call.action = "column_stats"

\* The numbers of the column are finite.
FiniteValues == \A i \in DOMAIN call.values : call.values[i].d # 0

\* min <= q1 <= median <= q3 <= max, min and max being the smallest and the
\* largest of the values.
QuantilesInOrder(stats, values) ==
    /\ NumLe(stats.min, stats.q1) /\ NumLe(stats.q1, stats.median)
    /\ NumLe(stats.median, stats.q3) /\ NumLe(stats.q3, stats.max)
    /\ \E i \in DOMAIN values : values[i] = stats.min
    /\ \E i \in DOMAIN values : values[i] = stats.max
    /\ \A i \in DOMAIN values : NumLe(stats.min, values[i]) /\ NumLe(values[i], stats.max)

\* C22: every ColumnStats with count >= 1 has min <= q1 <= median <= q3 <= max,
\* where min and max are the smallest and the largest usable value.
C22_QuantileOrder ==
    (IsColumnStats /\ result.stats.count >= 1) =>
        QuantilesInOrder(result.stats, call.values)

\* C22 for the columns whose numbers are all finite.
C22_QuantileOrderOfFiniteValues ==
    (IsColumnStats /\ result.stats.count >= 1 /\ FiniteValues) =>
        QuantilesInOrder(result.stats, call.values)

\* The column -Infinity, Infinity: q1, median and q3 are NaN.
C22_InfiniteValues ==
    /\ IsColumnStats
    /\ call.values = <<Rat(-1, 0), Rat(1, 0)>>
    /\ result.stats.min = Rat(-1, 0) /\ result.stats.max = Rat(1, 0)
    /\ result.stats.q1 = NaN /\ result.stats.median = NaN /\ result.stats.q3 = NaN

\* The same column in a file: describe returns the ColumnStats with q1 = NaN.
C22_InfiniteValuesOfFile ==
    /\ DescribesTable /\ Succeeded
    /\ file = <<Row("1", "Infinity"), Row("3", "-Infinity")>>
    /\ \E c \in DOMAIN result.details.columns :
           /\ result.details.columns[c].column = "value"
           /\ result.details.columns[c].min = Rat(-1, 0)
           /\ result.details.columns[c].q1 = NaN

\* Four finite numbers of which three differ: the quantiles are in strict order.
C22_WitnessFinite ==
    /\ IsColumnStats /\ FiniteValues
    /\ result.stats.count = 4
    /\ result.stats.min # result.stats.q1 /\ result.stats.q1 # result.stats.median
    /\ result.stats.median # result.stats.q3 /\ result.stats.q3 # result.stats.max

(***************************************************************************)
(* C23.  The quartiles of a ColumnStats.                                   *)
(***************************************************************************)
\* x < y for two numbers that may be infinite.
NumLt(x, y) == NumLe(x, y) /\ x # y

\* s[k] of the values in ascending order s[0..n-1].
Ascending(values, k) ==
    LET i == CHOOSE i \in DOMAIN values :
                 /\ Cardinality({j \in DOMAIN values : NumLt(values[j], values[i])}) <= k
                 /\ Cardinality({j \in DOMAIN values : NumLe(values[j], values[i])}) > k
    IN  values[i]

\* The p-th percentile by linear interpolation: with i = (p/100) (n-1) and
\* f = i - floor(i), s[floor(i)] (1-f) + s[ceil(i)] f, and s[i] for an integer i.
Interpolated(values, p) ==
    LET scaled == p * (Len(values) - 1)
        floor == scaled \div 100
        f == Rat(scaled % 100, 100)
    IN  IF scaled % 100 = 0 THEN Ascending(values, floor)
        ELSE RAdd(RMul(Ascending(values, floor), RSub(RInt(1), f)),
                  RMul(Ascending(values, floor + 1), f))

\* C23: q1, median and q3 are the 25th, 50th and 75th percentile of the usable
\* values by linear interpolation on their ascending order; a single value is
\* all three.
C23_Quartiles ==
    (IsColumnStats /\ result.stats.count >= 1) =>
        /\ result.stats.q1 = Interpolated(call.values, 25)
        /\ result.stats.median = Interpolated(call.values, 50)
        /\ result.stats.q3 = Interpolated(call.values, 75)
        /\ result.stats.count = 1 =>
               /\ result.stats.q1 = call.values[1]
               /\ result.stats.median = call.values[1]
               /\ result.stats.q3 = call.values[1]

\* The values 1..10: q1 = 3.25, median = 5.5, q3 = 7.75.
C23_Witness ==
    /\ IsColumnStats
    /\ call.values = OneToTen
    /\ result.stats.q1 = Rat(13, 4)
    /\ result.stats.median = Rat(11, 2)
    /\ result.stats.q3 = Rat(31, 4)

\* Three values out of order: the index of the median is an integer.
C23_WitnessInteger ==
    /\ IsColumnStats
    /\ call.values = <<RInt(4), RInt(1), RInt(2)>>
    /\ result.stats.q1 = Rat(3, 2) /\ result.stats.median = RInt(2) /\ result.stats.q3 = RInt(3)

\* A single value.
C23_WitnessSingle ==
    /\ IsColumnStats
    /\ call.values = <<RInt(4)>>
    /\ result.stats.q1 = RInt(4) /\ result.stats.median = RInt(4) /\ result.stats.q3 = RInt(4)

(***************************************************************************)
(* C24.  The deviation, the skewness and the kurtosis of a ColumnStats.    *)
(***************************************************************************)
\* The values of the column are all the same number.
AllEqual(values) == \A i, j \in DOMAIN values : values[i] = values[j]

\* std is the sample standard deviation, 0 for one value and for equal values;
\* skewness is 0 for fewer than 3 values and for std = 0; kurtosis is 0 for fewer
\* than 4 values and for std = 0.
DeviationOf(stats, values) ==
    LET n == Len(values)
    IN  /\ stats.std = IF n = 1 THEN SurdZero ELSE Sqrt(SampleVariance(values))
        /\ (n = 1 \/ AllEqual(values)) => stats.std = SurdZero
        /\ (n < 3 \/ stats.std = SurdZero) => stats.skewness = SurdZero
        /\ (n < 4 \/ stats.std = SurdZero) => stats.kurtosis = RZero

\* C24: every ColumnStats with count = n >= 1 has for std the sample standard
\* deviation with divisor n - 1, which is 0 when n = 1 or when all usable values
\* are equal; its skewness is 0 when n < 3 or std = 0 and its kurtosis is 0 when
\* n < 4 or std = 0.
C24_Deviation ==
    (IsColumnStats /\ result.stats.count >= 1) => DeviationOf(result.stats, call.values)

\* C24 for the columns whose numbers are all finite.
C24_DeviationOfFiniteValues ==
    (IsColumnStats /\ result.stats.count >= 1 /\ FiniteValues) =>
        DeviationOf(result.stats, call.values)

\* The column Infinity, Infinity: its values are equal and its std is NaN.
C24_InfiniteValues ==
    /\ IsColumnStats
    /\ call.values = <<Rat(1, 0), Rat(1, 0)>>
    /\ result.stats.std = SurdNaN

\* The same column in a file: describe returns the ColumnStats with std = NaN.
C24_InfiniteValuesOfFile ==
    /\ DescribesTable /\ Succeeded
    /\ file = <<Row("1", "Infinity"), Row("1", "Infinity")>>
    /\ \E c \in DOMAIN result.details.columns :
           /\ result.details.columns[c].column = "value"
           /\ result.details.columns[c].count = 2
           /\ result.details.columns[c].std = SurdNaN

\* Four finite values with a deviation, a skewness and a kurtosis that are not 0.
C24_WitnessFinite ==
    /\ IsColumnStats /\ FiniteValues
    /\ result.stats.count = 4
    /\ result.stats.std.sgn > 0
    /\ result.stats.skewness.sgn # 0
    /\ ~RIsZero(result.stats.kurtosis)

\* Four equal finite values: std, skewness and kurtosis are 0.
C24_WitnessEqual ==
    /\ IsColumnStats
    /\ call.values = <<RInt(2), RInt(2), RInt(2), RInt(2)>>
    /\ result.stats.std = SurdZero
    /\ result.stats.skewness = SurdZero
    /\ result.stats.kurtosis = RZero

(***************************************************************************)
(* C25.  The small-sample warnings of describe.                            *)
(***************************************************************************)
\* The diagnostics of the result of the kind.
DiagnosticsOf(kind) ==
    {k \in DOMAIN result.diagnostics : result.diagnostics[k].kind = kind}

\* The groups the warning of the result names.
WarnedGroups ==
    UNION {{result.diagnostics[k].groups[j].name : j \in DOMAIN result.diagnostics[k].groups} :
              k \in DiagnosticsOf("SmallGroups")}

\* The call has a column to analyse, and its columns and groupBy are headers.
ValidDescribe ==
    /\ ~NoColumnToAnalyse
    /\ \A k \in DOMAIN call.columns : call.columns[k] \in TableHeaders
    /\ GroupByKnown

\* C25: describe warns of a small sample exactly when the table has fewer than 30
\* rows, and with groupBy it warns, once, of exactly the groups that have fewer
\* than 30 rows; the warnings do not keep a valid call from returning a result.
C25_SmallSampleWarnings ==
    DescribesTable =>
        /\ ValidDescribe => Succeeded
        /\ Succeeded =>
               LET rows == Table.rows
                   groups == result.details.groups
                   small == {groups[k].name : k \in
                                {j \in DOMAIN groups :
                                    Cardinality(MembersOf(rows, groups[j].name)) < SmallSample}}
               IN  /\ Cardinality(DiagnosticsOf("SmallSample")) =
                          (IF Len(rows) < SmallSample THEN 1 ELSE 0)
                   /\ Cardinality(DiagnosticsOf("SmallGroups")) =
                          (IF small # {} THEN 1 ELSE 0)
                   /\ WarnedGroups = small

\* What the code does: the size of a group is the count of the first analysed
\* column in it, the number of its rows with a number in that column.
C25_WarningsByFirstColumn ==
    DescribesTable =>
        /\ ValidDescribe => Succeeded
        /\ Succeeded =>
               LET rows == Table.rows
                   groups == result.details.groups
                   small == {groups[k].name : k \in
                                {j \in DOMAIN groups :
                                    groups[j].stats[1].count < SmallSample}}
               IN  /\ Cardinality(DiagnosticsOf("SmallSample")) =
                          (IF Len(rows) < SmallSample THEN 1 ELSE 0)
                   /\ Cardinality(DiagnosticsOf("SmallGroups")) =
                          (IF small # {} THEN 1 ELSE 0)
                   /\ WarnedGroups = small

\* A group of 30 rows, one of them without a value, and a group of 30 rows with
\* values: the warning names the first, which is not small.
C25_WarnedLargeGroup ==
    /\ DescribesTable /\ Succeeded
    /\ call.columns = <<"value">> /\ call.groupBy = "group"
    /\ Cardinality(MembersOf(Table.rows, "A")) = SmallSample
    /\ Cardinality(MembersOf(Table.rows, "B")) = SmallSample
    /\ WarnedGroups = {"A"}
    /\ DiagnosticsOf("SmallSample") = {}

\* A table of 30 rows or more with a small group and a group that is not small.
C25_WitnessSmallGroup ==
    /\ DescribesTable /\ Succeeded
    /\ call.groupBy = "group"
    /\ Cardinality(MembersOf(Table.rows, "A")) = 1
    /\ Cardinality(MembersOf(Table.rows, "B")) = SmallSample
    /\ WarnedGroups = {"A"}
    /\ DiagnosticsOf("SmallSample") = {}

\* A table of 29 rows: the warning of the small sample.
C25_WitnessSmallTable ==
    /\ DescribesTable /\ Succeeded
    /\ Len(file) = SmallSample - 1
    /\ DiagnosticsOf("SmallSample") # {}

(***************************************************************************)
(* C26.  The kinds of the errors.                                          *)
(***************************************************************************)
\* The kind the taxonomy gives the failure condition.
KindOf(condition) == condition \o "Error"

\* C26: the error of each of the nine failure conditions carries the kind of
\* the condition, which is not the kind of another condition.
C26_ErrorKinds ==
    result.kind = "error" /\ result.error \in ErrorKinds =>
        result.name = KindOf(result.error)

\* What the code does: every failure is a plain Error, and the condition can
\* be told by its message alone.
C26_PlainErrors ==
    result.kind = "error" => result.name = "Error"

\* Two of the conditions, each thrown as an Error.
C26_GroupCountAsError ==
    /\ Failed("GroupCount") /\ result.name = "Error"

C26_NoNumericColumnsAsError ==
    /\ Failed("NoNumericColumns") /\ result.name = "Error"

(***************************************************************************)
(* C27.  The warnings of the reader in the diagnostics of a result.        *)
(***************************************************************************)
\* The headers whose column has a missing cell in more than 0.3 of the rows.
HighMissingColumns ==
    {h \in TableHeaders :
        10 * Cardinality({i \in DOMAIN file : Trim(RawText(i, h)) \in MissingVocabulary})
            > 3 * Len(file)}

\* The warnings of the reader for the file: one for each such column, in header
\* order.
ExpectedWarnings ==
    LET columns == InHeaderOrder(HighMissingColumns)
    IN  [k \in DOMAIN columns |-> [kind |-> "HighMissingRate", column |-> columns[k]]]

\* C27: the diagnostics of a successful describe or tTest start with the warnings
\* of the reader, one for exactly each column with a missing rate above 0.3, in
\* their order, and the diagnostics of the method follow them.
C27_WarningsFirst ==
    (IsTTest \/ IsDescribe) /\ Succeeded =>
        LET expected == ExpectedWarnings
            diagnostics == result.diagnostics
        IN  /\ Len(diagnostics) >= Len(expected)
            /\ SubSeq(diagnostics, 1, Len(expected)) = expected
            /\ \A k \in (Len(expected) + 1)..Len(diagnostics) :
                   diagnostics[k].kind # "HighMissingRate"

\* A paired tTest on a file without a group in any row: the warning of the column
\* group, then the diagnostic of the small samples.
C27_Witness ==
    /\ IsTTest /\ Succeeded
    /\ result.diagnostics =
           <<[kind |-> "HighMissingRate", column |-> "group"], [kind |-> "SmallSample"]>>

\* A describe on a file with both columns missing in half of the rows: the two
\* warnings in header order, then the diagnostic of the small sample.
C27_WitnessDescribe ==
    /\ IsDescribe /\ Succeeded
    /\ call.groupBy = ""
    /\ result.diagnostics =
           <<[kind |-> "HighMissingRate", column |-> "group"],
             [kind |-> "HighMissingRate", column |-> "value"],
             [kind |-> "SmallSample"]>>

\* A describe on a file of ten rows, three of them without a value: a missing
\* rate of 0.3 gives no warning.
C27_WitnessAtThreshold ==
    /\ IsDescribe /\ Succeeded
    /\ Len(file) = 10
    /\ Cardinality({i \in DOMAIN file : file[i].value = "NA"}) = 3
    /\ DiagnosticsOf("HighMissingRate") = {}

\* A describe on a file of three rows, one of them without a value: the warning.
C27_WitnessAboveThreshold ==
    /\ IsDescribe /\ Succeeded
    /\ Len(file) = 3
    /\ Cardinality({i \in DOMAIN file : file[i].value = "NA"}) = 1
    /\ DiagnosticsOf("HighMissingRate") # {}

(***************************************************************************)
(* C28.  The data information of a result.                                 *)
(***************************************************************************)
\* The rows a t_test uses: those with a number of the variable, in one of the
\* two groups when the call has a groupByColumn.
UsedRows ==
    IF call.groupByColumn # ""
    THEN (RowsOf(call.groupByColumn, FirstGroup) \cup RowsOf(call.groupByColumn, SecondGroup))
             \cap Numeric(call.variable)
    ELSE Numeric(call.variable)

\* C28: in every result usedRows + excludedRows = totalRows, with usedRows from 0
\* to totalRows and excludedRows not negative.  For tTest usedRows is
\* group1.n + group2.n, the rows with a group and a number of the variable; for
\* describe usedRows = totalRows and excludedRows = 0.
C28_DataInfo ==
    Succeeded =>
        LET dataInfo == result.dataInfo
        IN  /\ dataInfo.totalRows = Len(file)
            /\ dataInfo.usedRows + dataInfo.excludedRows = dataInfo.totalRows
            /\ 0 <= dataInfo.usedRows /\ dataInfo.usedRows <= dataInfo.totalRows
            /\ dataInfo.excludedRows >= 0
            /\ IsTTest =>
                   /\ dataInfo.usedRows = result.details.group1.n + result.details.group2.n
                   /\ dataInfo.usedRows = Cardinality(UsedRows)
            /\ IsDescribe =>
                   /\ dataInfo.usedRows = dataInfo.totalRows
                   /\ dataInfo.excludedRows = 0

\* A tTest on five rows, one of them without a value: four used, one excluded.
C28_Witness ==
    /\ IsTTest /\ Succeeded
    /\ call.groupByColumn = "group"
    /\ Len(file) = 5
    /\ \E i \in DOMAIN file : file[i] = Row("A", "NA")
    /\ result.dataInfo = [totalRows |-> 5, usedRows |-> 4, excludedRows |-> 1]

\* A tTest on a file with a row without a group: the row is excluded.
C28_WitnessNoGroup ==
    /\ IsTTest /\ Succeeded
    /\ call.groupByColumn = "group"
    /\ \E i \in DOMAIN file : file[i] = Row("", "1")
    /\ result.dataInfo.excludedRows = 1

\* A describe by group on a file with a row without a group and a row without
\* a value: no row is excluded.
C28_WitnessDescribe ==
    /\ IsDescribe /\ Succeeded
    /\ call.groupBy = "group"
    /\ \E i \in DOMAIN file : file[i] = Row("", "1")
    /\ \E i \in DOMAIN file : file[i] = Row("A", "NA")
    /\ result.dataInfo.usedRows = Len(file)
    /\ result.dataInfo.excludedRows = 0

(***************************************************************************)
(* C29.  The degrees of freedom of the independent test.                   *)
(***************************************************************************)
IsWelch == call.action = "welch"

\* The numbers of the two samples are finite.
FiniteSamples ==
    /\ \A i \in DOMAIN call.group1Values : call.group1Values[i].d # 0
    /\ \A i \in DOMAIN call.group2Values : call.group2Values[i].d # 0

\* df is from min(n1 - 1, n2 - 1) to n1 + n2 - 2; it is n1 + n2 - 2 when both
\* variances are 0 and less when n1 = n2 and the variances differ.
WelchBounds(df, n1, n2, var1, var2) ==
    /\ NumLe(RInt(Min({n1 - 1, n2 - 1})), df)
    /\ NumLe(df, RInt(n1 + n2 - 2))
    /\ (var1 = RZero /\ var2 = RZero) => df = RInt(n1 + n2 - 2)
    /\ (n1 = n2 /\ var1 # var2) => df # RInt(n1 + n2 - 2)

\* C29: the degrees of freedom of an independent tTest lie between
\* min(n1 - 1, n2 - 1) and n1 + n2 - 2; they are n1 + n2 - 2 when both variances
\* are 0, and less when n1 = n2 and the variances differ.
C29_DegreesOfFreedom ==
    IsWelch =>
        WelchBounds(result.statistic.df, Len(call.group1Values), Len(call.group2Values),
                    SampleVariance(call.group1Values), SampleVariance(call.group2Values))

\* C29 for the samples whose numbers are all finite.
C29_DegreesOfFreedomOfFiniteValues ==
    (IsWelch /\ FiniteSamples) =>
        WelchBounds(result.statistic.df, Len(call.group1Values), Len(call.group2Values),
                    SampleVariance(call.group1Values), SampleVariance(call.group2Values))

\* A sample with the value Infinity: the degrees of freedom are NaN.
C29_InfiniteValue ==
    /\ IsWelch
    /\ call.group1Values = <<RInt(1), Rat(1, 0)>>
    /\ call.group2Values = <<RInt(1), RInt(2)>>
    /\ result.statistic.df = NaN

\* Two samples of equal values: n1 + n2 - 2 degrees of freedom.
C29_WitnessFallback ==
    /\ IsWelch
    /\ call.group1Values = <<RInt(1), RInt(1)>>
    /\ call.group2Values = <<RInt(2), RInt(2), RInt(2)>>
    /\ result.statistic.df = RInt(3)

\* Two samples of two values with the variances 1/2 and 2: 25/17 degrees of
\* freedom, between 1 and 2.
C29_WitnessBelow ==
    /\ IsWelch
    /\ call.group1Values = <<RInt(1), RInt(2)>>
    /\ call.group2Values = <<RInt(2), RInt(4)>>
    /\ result.statistic.df = Rat(25, 17)

\* A sample of equal values and one of others: the degrees of freedom of the
\* second, n2 - 1.
C29_WitnessOneVariance ==
    /\ IsWelch
    /\ call.group1Values = <<RInt(1), RInt(1)>>
    /\ call.group2Values = <<RInt(1), RInt(2), RInt(4)>>
    /\ result.statistic.df = RInt(2)

(***************************************************************************)
(* C30.  The paired test with a groupByColumn.                             *)
(***************************************************************************)
\* A paired t_test with a groupByColumn on the columns of a table.
PairedByGroup ==
    /\ IsTTest /\ HasTable /\ ColumnsGiven /\ ColumnsKnown
    /\ call.paired /\ call.groupByColumn # ""

C30_WitnessUnequal ==
    /\ PairedByGroup /\ Failed("UnequalPairedSize")
    /\ Len(Sample1) = 3 /\ Len(Sample2) = 2

\* A file with one group: GroupCountError.
C30_WitnessOneGroup ==
    /\ PairedByGroup /\ Failed("GroupCount")
    /\ Cardinality(GroupValues(call.groupByColumn)) = 1

====
